---------------------------- MODULE Spec2Model ----------------------------
(***************************************************************************)
(* BrickIn: the host loop of main.py, the scene graph of menus.py and      *)
(* level.py, and the per-frame Level.update (ball, paddle, brick and       *)
(* paddle collision, life loss) of level.py / game_objects.py.             *)
(*                                                                         *)
(* Numbers.  The program computes positions and velocities in floating     *)
(* point.  Here a position or velocity component is an integer count of    *)
(* 1/Scale units (fixed point); a division truncates toward zero.          *)
(* pygame's Rect truncates its float arguments toward zero to whole        *)
(* pixels, which RectOf does as the code does.                             *)
(*                                                                         *)
(* Input.  The KEYBOARD branch of every handler is modelled.  The GAMEPAD  *)
(* branch of Level.update and Paddle.update is the same code with button A *)
(* for SPACE, START for ESCAPE and the axis value -1 / 1 for left / right  *)
(* (never both), so its behaviours are among the modelled ones.            *)
(***************************************************************************)
EXTENDS Integers, Sequences, FiniteSets, TLC

VARIABLES
    running,    \* main.py: the host loop's flag
    scene,      \* main.py: class of current_scene, "None" when it is None
    selection,  \* MainMenu.selection / DifficultyMenu.selection
    active,     \* LeaderboardAdd.active / LeaderboardDisplay.active
    addScore,   \* LeaderboardAdd.score
    board,      \* Leaderboard.scores, a sequence of <<name, score>>
    changed,    \* Leaderboard.changed
    file,       \* the backing file brickin.board: NoFile or its lines
    vec,        \* a Vector2D: <<x, y>> in units of 1/Scale
    arg,        \* the operand handed to a Vector2D operation: [type, comps]
    out,        \* what the operation gave: [kind, vec, num]
    diff,       \* Level.diff
    win,        \* Level.win
    score,      \* Level.score
    lives,      \* Level.lives
    paused,     \* Level.paused
    ball,       \* Level.ball: [pos, vel, speed, launched, alive]
    paddle,     \* Level.paddle.pos
    bricks,     \* Level.bricks: sequence of [pos, intact], generation order
    entry,      \* LeaderboardAdd: [name, underline, edits]; edits is a cap
    flight,     \* number of Ball.update position advances so far (cap)
    last        \* what the latest host-loop iteration did (history)

vars == <<running, scene, selection, active, addScore, board, changed, file,
          vec, arg, out,
          diff, win, score,
          lives, paused, ball, paddle, bricks, entry, flight, last>>

-----------------------------------------------------------------------------
(* Bounds of the model *)

\* screen_dim[0] in pixels (main.py sets 700; scaled down here)
ScreenW == 72
\* screen_dim[1] in pixels (main.py derives it from the display; scaled down)
ScreenH == 101
\* fixed-point resolution: units per pixel and per 1.0 of velocity
Scale == 1000
\* most KEYDOWN events delivered to one update call
MaxEvents == 1
\* most Ball.update position advances followed in one run of the program
MaxFlight == 30
\* most K_UP / K_DOWN events followed within one LeaderboardAdd scene
MaxEdits == 1
\* random() is drawn from {0, 1/RandRes, ..., (RandRes-1)/RandRes}
RandRes == 4
\* most bricks of a Level that finished() is applied to in FinSpec
MaxFinBricks == 3
\* most calls of Ball.update, Paddle.update and Ball.reset followed in ObjSpec
MaxCalls == 2
MaxLines == 11
MaxComps == 3
MaxBurst == 2

(* Program constants *)

FPS == 60
BALL_WIDTH == 5
BALL_HEIGHT == 5
BRICK_WIDTH == 30
BRICK_HEIGHT == 15
PADDLE_WIDTH == 50
PADDLE_HEIGHT == 10
PADDLE_SPEED == 300
START_LIVES == 3
BRICK_SCORE == 100
BOARD_SIZE == 10

-----------------------------------------------------------------------------
(* Arithmetic *)

\* float -> int conversion and float division, truncating toward zero
TruncDiv(a, b) == IF a >= 0 THEN a \div b ELSE -((-a) \div b)

RECURSIVE SqrtSearch(_, _, _)
SqrtSearch(n, lo, hi) ==
    IF lo >= hi THEN lo
    ELSE LET mid == (lo + hi + 1) \div 2
         IN  IF mid * mid <= n THEN SqrtSearch(n, mid, hi)
             ELSE SqrtSearch(n, lo, mid - 1)

\* math.hypot(x, y), rounded down to the fixed-point grid
Hypot(x, y) == SqrtSearch(x * x + y * y, 0, 2 * Scale + 2)

Min(a, b) == IF a < b THEN a ELSE b
Max(a, b) == IF a > b THEN a ELSE b

-----------------------------------------------------------------------------
(* vector_2d.py *)

\* Vector2DBuilder.unit: self / abs(self), in place
Unit(v) == LET m == Hypot(v[1], v[2])
           IN  <<TruncDiv(v[1] * Scale, m), TruncDiv(v[2] * Scale, m)>>

\* Vector2D.clamp
Clamp(p, xr, yr) == <<Min(Max(xr[1], p[1]), xr[2]), Min(Max(yr[1], p[2]), yr[2])>>

\* velocity * delta * speed, one component: delta is 1/FPS
Step(c, speed) == TruncDiv(c * speed, FPS)

-----------------------------------------------------------------------------
(* vector_2d.py: the operators and the static translation methods.  An     *)
(* operand is [type, comps]: the name of its Python type and its           *)
(* components (its one value for a number), in units of 1/Scale.           *)

Sequential == {"Vector2D", "tuple", "list"}
Numeric == {"int", "float"}

\* outcomes: a Vector2D, a number, or the exception raised
OutVec(v) == [kind |-> "Vector2D", vec |-> v, num |-> 0]
OutNum(n) == [kind |-> "float", vec |-> <<0, 0>>, num |-> n]
Raises(e) == [kind |-> e, vec |-> <<0, 0>>, num |-> 0]
NoOut == [kind |-> "none", vec |-> <<0, 0>>, num |-> 0]
NoArg == [type |-> "NoneType", comps |-> <<>>]

\* no Vector2D operation is under way
NoVectorNow == vec = <<0, 0>> /\ arg = NoArg /\ out = NoOut

\* Vector2D.from_list
FromList(o) ==
    IF o.type # "list" THEN Raises("TypeError")
    ELSE IF Len(o.comps) < 2 THEN Raises("ValueError")
    ELSE OutVec(<<o.comps[1], o.comps[2]>>)

\* Vector2D.from_tuple
FromTuple(o) ==
    IF o.type # "tuple" THEN Raises("TypeError")
    ELSE IF Len(o.comps) < 2 THEN Raises("ValueError")
    ELSE OutVec(<<o.comps[1], o.comps[2]>>)

\* VecAdd without the length test: other[1] of a short operand raises
VecAddNoLength(v, o) ==
    IF o.type \notin Sequential THEN Raises("TypeError")
    ELSE IF Len(o.comps) < 2 THEN Raises("IndexError")
    ELSE OutVec(<<v[1] + o.comps[1], v[2] + o.comps[2]>>)

\* Vector2D.__add__
VecAdd(v, o) ==
    IF o.type \notin Sequential THEN Raises("TypeError")
    ELSE IF Len(o.comps) < 2 THEN Raises("ValueError")
    ELSE OutVec(<<v[1] + o.comps[1], v[2] + o.comps[2]>>)

\* Vector2D.__sub__
VecSub(v, o) ==
    IF o.type \notin Sequential THEN Raises("TypeError")
    ELSE IF Len(o.comps) < 2 THEN Raises("ValueError")
    ELSE OutVec(<<v[1] - o.comps[1], v[2] - o.comps[2]>>)

\* Vector2D.__mul__: scaling by a number, dot product with a sequence
VecMul(v, o) ==
    IF o.type \in Numeric
    THEN OutVec(<<TruncDiv(o.comps[1] * v[1], Scale), TruncDiv(o.comps[1] * v[2], Scale)>>)
    ELSE IF o.type \in Sequential /\ Len(o.comps) >= 2
    THEN OutNum(TruncDiv(o.comps[1] * v[1] + o.comps[2] * v[2], Scale))
    ELSE Raises("TypeError")

\* Vector2D.__truediv__
VecDiv(v, o) ==
    IF o.type \notin Numeric THEN Raises("TypeError")
    ELSE IF o.comps[1] = 0 THEN Raises("ZeroDivisionError")
    ELSE OutVec(<<TruncDiv(v[1] * Scale, o.comps[1]), TruncDiv(v[2] * Scale, o.comps[1])>>)

-----------------------------------------------------------------------------
(* pygame.Rect *)

\* pg.Rect(*pos.to_tuple(), w, h): the float position is truncated to pixels
RectOf(p, w, h) == [x |-> TruncDiv(p[1], Scale), y |-> TruncDiv(p[2], Scale),
                    w |-> w, h |-> h]

\* Rect.colliderect: the interiors overlap (touching edges do not collide)
CollideRect(a, b) ==
    /\ a.x < b.x + b.w
    /\ b.x < a.x + a.w
    /\ a.y < b.y + b.h
    /\ b.y < a.y + a.h

-----------------------------------------------------------------------------
(* game_objects.py: Ball *)

\* Ball.__init__: velocity is Vector2DBuilder(choice([-1, 1]), -1)
NewBall(p, speed, dir) ==
    [pos |-> p, vel |-> <<dir * Scale, -Scale>>, speed |-> speed,
     launched |-> FALSE, alive |-> TRUE]

\* Ball.get_rect
BallRect(b) == RectOf(b.pos, BALL_WIDTH, BALL_HEIGHT)

\* Ball.last_horizontal_rect, after its self.velocity.unit()
LastHorizontalRect(b) ==
    RectOf(<<b.pos[1] - Step(b.vel[1], b.speed), b.pos[2]>>, BALL_WIDTH, BALL_HEIGHT)

\* LastVerticalRect with the displacement added instead of subtracted
LastVerticalRectRedone(b) ==
    RectOf(<<b.pos[1], b.pos[2] + Step(b.vel[2], b.speed)>>, BALL_WIDTH, BALL_HEIGHT)

\* Ball.last_vertical_rect, after its self.velocity.unit()
LastVerticalRect(b) ==
    RectOf(<<b.pos[1], b.pos[2] - Step(b.vel[2], b.speed)>>, BALL_WIDTH, BALL_HEIGHT)

\* BelowScreen comparing the ball's top edge with the screen's bottom
BelowScreenTopEdge(b) == b.pos[2] > ScreenH * Scale /\ b.vel[2] > 0

\* Ball.update, the screen-bottom test
BelowScreen(b) == b.pos[2] + BALL_HEIGHT * Scale > ScreenH * Scale /\ b.vel[2] > 0

\* WallReflect without the reflection at the left wall
WallReflectNoLeft(b) ==
    LET vy == IF b.pos[2] <= 0 /\ b.vel[2] < 0 THEN -b.vel[2] ELSE b.vel[2]
        vx == IF b.pos[1] + BALL_WIDTH * Scale >= ScreenW * Scale /\ b.vel[1] > 0
              THEN -b.vel[1] ELSE b.vel[1]
    IN  <<vx, vy>>

\* Ball.update, the wall reflections (applied before the position advance)
WallReflect(b) ==
    LET vy == IF b.pos[2] <= 0 /\ b.vel[2] < 0 THEN -b.vel[2] ELSE b.vel[2]
        vx == IF \/ b.pos[1] < 0 /\ b.vel[1] < 0
                 \/ b.pos[1] + BALL_WIDTH * Scale >= ScreenW * Scale /\ b.vel[1] > 0
              THEN -b.vel[1] ELSE b.vel[1]
    IN  <<vx, vy>>

\* Advance moving the ball with the velocity it had before the reflections
AdvanceStale(b, v) ==
    LET u == Unit(v)
        w == Unit(b.vel)
    IN  [b EXCEPT !.vel = u,
                  !.pos = <<b.pos[1] + Step(w[1], b.speed),
                            b.pos[2] + Step(w[2], b.speed)>>]

\* Ball.update, the position advance: unit(), then pos + velocity * delta * speed
Advance(b, v) ==
    LET u == Unit(v)
    IN  [b EXCEPT !.vel = u,
                  !.pos = <<b.pos[1] + Step(u[1], b.speed),
                            b.pos[2] + Step(u[2], b.speed)>>]

\* BallUpdate without the launched test
BallUpdateAlways(b) ==
    LET b1 == IF BelowScreen(b) THEN [b EXCEPT !.alive = FALSE] ELSE b
    IN  IF b1.alive THEN Advance(b1, WallReflect(b1)) ELSE b1

\* Ball.update
BallUpdate(b) ==
    IF ~b.launched THEN b
    ELSE LET b1 == IF BelowScreen(b) THEN [b EXCEPT !.alive = FALSE] ELSE b
         IN  IF b1.alive THEN Advance(b1, WallReflect(b1)) ELSE b1

\* whether Ball.update advances the position of b
Advances(b) == b.launched /\ b.alive /\ ~BelowScreen(b)

\* Ball.reset
BallReset(b) == [b EXCEPT !.launched = FALSE, !.alive = TRUE]

-----------------------------------------------------------------------------
(* game_objects.py: Paddle *)

\* Anchor at the height of the paddle's top edge
AnchorInside(p) == <<p[1] + ((PADDLE_WIDTH - BALL_WIDTH) \div 2) * Scale, p[2]>>

\* the anchor of a ball that is not launched, Paddle.update's last line
Anchor(p) == <<p[1] + ((PADDLE_WIDTH - BALL_WIDTH) \div 2) * Scale,
               p[2] - (BALL_HEIGHT + 1) * Scale>>

\* left_vec * delta and right_vec * delta: PADDLE_SPEED / FPS pixels
PaddleStep == TruncDiv(PADDLE_SPEED * Scale, FPS)

\* Paddle.get_rect
PaddleRect(p) == RectOf(p, PADDLE_WIDTH, PADDLE_HEIGHT)

\* PaddleClamp without the lower limits
PaddleClampUpper(p) == <<Min(p[1], (ScreenW - PADDLE_WIDTH) * Scale),
                         Min(p[2], (ScreenH - PADDLE_HEIGHT) * Scale)>>

\* Paddle.update, the bounds check
PaddleClamp(p) == Clamp(p, <<0, (ScreenW - PADDLE_WIDTH) * Scale>>,
                           <<0, (ScreenH - PADDLE_HEIGHT) * Scale>>)

\* PaddleUpdate setting the ball's velocity x whether it is launched or not
PaddleUpdateSteers(p, b, left, right) ==
    LET p1 == IF left THEN <<p[1] - PaddleStep, p[2]>> ELSE p
        v1 == IF left THEN <<-Scale, b.vel[2]>> ELSE b.vel
        p2 == IF right THEN <<p1[1] + PaddleStep, p1[2]>> ELSE p1
        v2 == IF right THEN <<Scale, v1[2]>> ELSE v1
        p3 == PaddleClamp(p2)
    IN  [paddle |-> p3,
         ball   |-> [b EXCEPT !.vel = v2,
                              !.pos = IF b.launched THEN b.pos ELSE Anchor(p3)]]

\* Paddle.update with the left / right keys held or not: [paddle, ball]
PaddleUpdate(p, b, left, right) ==
    LET p1 == IF left THEN <<p[1] - PaddleStep, p[2]>> ELSE p
        v1 == IF left /\ ~b.launched THEN <<-Scale, b.vel[2]>> ELSE b.vel
        p2 == IF right THEN <<p1[1] + PaddleStep, p1[2]>> ELSE p1
        v2 == IF right /\ ~b.launched THEN <<Scale, v1[2]>> ELSE v1
        p3 == PaddleClamp(p2)
    IN  [paddle |-> p3,
         ball   |-> [b EXCEPT !.vel = v2,
                              !.pos = IF b.launched THEN b.pos ELSE Anchor(p3)]]

-----------------------------------------------------------------------------
(* game_objects.py: Brick *)

\* Brick.get_rect
BrickRect(k) == RectOf(k.pos, BRICK_WIDTH, BRICK_HEIGHT)

\* BrickHit leaving the brick intact
BrickHitNoEffect(k) == k

\* Brick.hit
BrickHit(k) == [k EXCEPT !.intact = FALSE]

-----------------------------------------------------------------------------
(* level.py: Level.__init__ *)

Px(x, y) == <<x * Scale, y * Scale>>

\* ClampDifficulty without the lower limit
ClampDifficultyLow(d) == Min(3, d)

\* difficulty = max(min(3, difficulty), 1)
ClampDifficulty(d) == Max(Min(3, d), 1)

\* BallSpeed with the easy and medium speeds exchanged
BallSpeedSwapped(d) == IF d = 2 THEN 75 ELSE IF d = 3 THEN 200 ELSE 150

BallSpeed(d) == IF d = 2 THEN 150 ELSE IF d = 3 THEN 200 ELSE 75
\* vert_spread and brick_prob, in tenths
VertSpread(d) == IF d = 3 THEN 5 ELSE 3
BrickProb(d) == IF d = 2 THEN 5 ELSE IF d = 3 THEN 10 ELSE 3

HorzBricks == (ScreenW \div (BRICK_WIDTH + 3)) - 1
HorzStart == (ScreenW - HorzBricks * (BRICK_WIDTH + 1)) \div 2
VertBricks(d) == ((VertSpread(d) * ScreenH) \div 10) \div (BRICK_HEIGHT + 3)
VertStart == ScreenH \div 10

\* the grid cells in generation order: for i in range(horz), for j in range(vert)
CellCount(d) == HorzBricks * VertBricks(d)
CellPos(d, n) == LET i == (n - 1) \div VertBricks(d)
                     j == (n - 1) % VertBricks(d)
                 IN  Px(HorzStart + i * (BRICK_WIDTH + 1),
                        VertStart + j * (BRICK_HEIGHT + 1))

\* Placed with the comparison turned round
PlacedAbove(d, r) == r * 10 >= BrickProb(d) * RandRes

\* random() < brick_prob, for the sample r / RandRes
Placed(d, r) == r * 10 < BrickProb(d) * RandRes

RECURSIVE Generate(_, _, _)
\* the brick loop of Level.__init__ from cell n on, with the samples rs
Generate(d, rs, n) ==
    IF n > CellCount(d) THEN <<>>
    ELSE (IF Placed(d, rs[n]) THEN <<[pos |-> CellPos(d, n), intact |-> TRUE]>>
          ELSE <<>>) \o Generate(d, rs, n + 1)

StartPaddle == Px((ScreenW - PADDLE_WIDTH) \div 2, ScreenH - 3 * PADDLE_HEIGHT)
StartBall == Px(ScreenW \div 2, ScreenH - 100)

-----------------------------------------------------------------------------
(* level.py: Level.update *)

Events == {"SPACE", "ESCAPE"}
EventSeqs == UNION {[1..n -> Events] : n \in 0..MaxEvents}

RECURSIVE ApplyEvents(_, _, _)
\* the KEYDOWN loop: [launched, paused] after the events es from index i on
ApplyEvents(es, i, st) ==
    IF i > Len(es) THEN st
    ELSE ApplyEvents(es, i + 1,
            IF es[i] = "SPACE" THEN [st EXCEPT !.launched = TRUE]
            ELSE [st EXCEPT !.paused = ~st.paused])

\* the reflection test made for one brick that was hit: [ball, bx, by]
Classify(b, k, bx, by) ==
    LET b1 == [b EXCEPT !.vel = Unit(b.vel)]
    IN  IF ~CollideRect(LastVerticalRect(b1), BrickRect(k))
        THEN [ball |-> b1, bx |-> bx, by |-> TRUE]
        ELSE LET b2 == [b1 EXCEPT !.vel = Unit(b1.vel)]
             IN  [ball |-> b2,
                  bx |-> bx \/ ~CollideRect(LastHorizontalRect(b2), BrickRect(k)),
                  by |-> by]

\* HitBrick without the intact test
HitBrickAny(r, k) == CollideRect(r, BrickRect(k))

\* one brick of colliding_bricks is handled or skipped
HitBrick(r, k) == CollideRect(r, BrickRect(k)) /\ k.intact

RECURSIVE BrickLoopFirstOnly(_, _, _)
\* BrickLoop leaving the loop after the first brick it handles
BrickLoopFirstOnly(i, r, st) ==
    IF i > Len(st.bricks) THEN st
    ELSE IF HitBrick(r, st.bricks[i])
         THEN LET c == Classify(st.ball, st.bricks[i], st.bx, st.by)
              IN  [ball   |-> c.ball,
                   bricks |-> [st.bricks EXCEPT ![i] = BrickHit(@)],
                   score  |-> st.score + BRICK_SCORE,
                   bx |-> c.bx, by |-> c.by]
         ELSE BrickLoopFirstOnly(i + 1, r, st)

RECURSIVE BrickLoop(_, _, _)
\* the loop over colliding_bricks, from brick i on; r is the ball's rectangle
BrickLoop(i, r, st) ==
    IF i > Len(st.bricks) THEN st
    ELSE IF HitBrick(r, st.bricks[i])
         THEN LET c == Classify(st.ball, st.bricks[i], st.bx, st.by)
              IN  BrickLoop(i + 1, r,
                      [ball   |-> c.ball,
                       bricks |-> [st.bricks EXCEPT ![i] = BrickHit(@)],
                       score  |-> st.score + BRICK_SCORE,
                       bx |-> c.bx, by |-> c.by])
         ELSE BrickLoop(i + 1, r, st)

\* Bounce reversing the whole velocity when either flag is set
BounceReverse(v, bx, by) == IF bx \/ by THEN <<-v[1], -v[2]>> ELSE v

\* the velocity after "if bounce_x: ... if bounce_y: ..."
Bounce(v, bx, by) == <<IF bx THEN -v[1] ELSE v[1], IF by THEN -v[2] ELSE v[2]>>

\* the brick collision check: [ball, bricks, score, bx, by]
BrickPhase(b, bs, sc) ==
    LET st == BrickLoop(1, BallRect(b),
                  [ball |-> b, bricks |-> bs, score |-> sc,
                   bx |-> FALSE, by |-> FALSE])
    IN  [st EXCEPT !.ball.vel = Bounce(st.ball.vel, st.bx, st.by)]

\* the paddle collision test
HitsPaddle(b, p) == CollideRect(BallRect(b), PaddleRect(p))

\* PaddleBounce with the sign of the snap offset wrong
PaddleBounceSnapBelow(b, p) ==
    [b EXCEPT !.vel = <<b.vel[1], -b.vel[2]>>,
              !.pos = <<b.pos[1], p[2] + (BALL_HEIGHT + 1) * Scale>>]

\* the ball after a paddle collision
PaddleBounce(b, p) ==
    [b EXCEPT !.vel = <<b.vel[1], -b.vel[2]>>,
              !.pos = <<b.pos[1], p[2] - (BALL_HEIGHT + 1) * Scale>>]

\* FellBelow measured from the paddle's top edge plus the screen's height
FellBelowScreen(b, p) == b.pos[2] + BALL_HEIGHT * Scale > p[2] + ScreenH * Scale

\* the fall-below-paddle test
FellBelow(b, p) == b.pos[2] + BALL_HEIGHT * Scale > p[2] + PADDLE_HEIGHT * Scale

\* PaddlePhase flipping the velocity without moving the ball
PaddlePhaseNoSnap(b, p) ==
    IF HitsPaddle(b, p) THEN [b EXCEPT !.vel = <<b.vel[1], -b.vel[2]>>] ELSE b

\* the paddle collision check: the ball after it
PaddlePhase(b, p) == IF HitsPaddle(b, p) THEN PaddleBounce(b, p) ELSE b

\* FallPhase taking two lives at a time
FallPhaseTwo(b, p, lv) ==
    IF FellBelow(b, p) THEN [ball |-> BallReset(b), lives |-> lv - 2]
    ELSE [ball |-> b, lives |-> lv]

\* the fall-below-paddle check: [ball, lives]
FallPhase(b, p, lv) ==
    IF FellBelow(b, p) THEN [ball |-> BallReset(b), lives |-> lv - 1]
    ELSE [ball |-> b, lives |-> lv]

\* the history record of an iteration in which the update body ran:
\* b0 is the ball before Ball.update, pu the result of Paddle.update,
\* bp the result of the brick check, b2 the ball after the paddle check,
\* fp the result of the fall check, bs and lv the bricks and lives before
TickOf(b0, pu, bp, b2, fp, bs, lv) ==
    [ran |-> TRUE, advanced |-> Advances(b0),
     hitPos |-> pu.ball.pos, hitVel |-> pu.ball.vel,
     hits |-> {i \in 1..Len(bs) : bs[i].intact /\ ~bp.bricks[i].intact},
     bounceX |-> bp.bx, bounceY |-> bp.by, brickVel |-> bp.ball.vel,
     paddleHit |-> b2 # bp.ball, lifeLost |-> fp.lives # lv]

\* the history record of an iteration in which the update body did not run
NoTick == [ran |-> FALSE, advanced |-> FALSE, hitPos |-> <<0, 0>>,
           hitVel |-> <<0, 0>>, hits |-> {}, bounceX |-> FALSE, bounceY |-> FALSE,
           brickVel |-> <<0, 0>>, paddleHit |-> FALSE, lifeLost |-> FALSE]

-----------------------------------------------------------------------------
(* level.py: Level.finished, Level.next_scene *)

\* AnyIntact looking at the brick at index i only
AnyIntactFirstOnly(bs, i) == IF i > Len(bs) THEN FALSE ELSE bs[i].intact

RECURSIVE AnyIntact(_, _)
\* the loop of finished(): some brick from index i on is intact
AnyIntact(bs, i) ==
    IF i > Len(bs) THEN FALSE
    ELSE IF bs[i].intact THEN TRUE ELSE AnyIntact(bs, i + 1)

\* Finished with lives < 0 for lives <= 0
FinishedStrict(lv, bs) ==
    IF lv < 0 THEN [ret |-> TRUE, win |-> FALSE]
    ELSE IF AnyIntact(bs, 1) THEN [ret |-> FALSE, win |-> FALSE]
    ELSE [ret |-> TRUE, win |-> TRUE]

\* Level.finished: the value returned and the win flag it leaves
Finished(lv, bs) ==
    IF lv <= 0 THEN [ret |-> TRUE, win |-> FALSE]
    ELSE IF AnyIntact(bs, 1) THEN [ret |-> FALSE, win |-> FALSE]
    ELSE [ret |-> TRUE, win |-> TRUE]

\* NextSceneOf without the win branch
NextSceneOfLost(w) == "LeaderboardAdd"

\* Level.next_scene: the class of the successor
NextSceneOf(w) == IF w THEN "Level" ELSE "LeaderboardAdd"

-----------------------------------------------------------------------------
(* leaderboard.py.  A name is its three letters as 0..25 for 'A'..'Z'. *)

LETTERS == 26
NameAAA == <<0, 0, 0>>

\* Leaderboard.__init__ without a backing file: ten ("AAA", 0) entries
PlaceholderBoard == [i \in 1..BOARD_SIZE |-> <<NameAAA, 0>>]

\* Leaderboard.check_score with "<=" in place of "<": a tie with an entry counts
CheckScoreOrTie(bd, sc) == \E i \in 1..Len(bd) : bd[i][2] <= sc

\* Leaderboard.check_score
CheckScore(bd, sc) == \E i \in 1..Len(bd) : bd[i][2] < sc

\* The backing file is [exists, lines]; a line "name,text" is [name, isInt,
\* score], where isInt tells whether int(text) succeeds and score is its value.
\* the backing file when it does not exist
NoFile == [exists |-> FALSE, lines |-> <<>>]

\* Leaderboard.__init__, the while loop: placeholders up to ten entries
Pad(sq) ==
    IF Len(sq) < BOARD_SIZE
    THEN sq \o [i \in 1..(BOARD_SIZE - Len(sq)) |-> <<NameAAA, 0>>]
    ELSE sq

\* Leaderboard.__init__ raises: int(score) fails on some line of the file
LoadRaises(f) == f.exists /\ \E i \in 1..Len(f.lines) : ~f.lines[i].isInt

\* Leaderboard.__init__: self.scores for the backing file f
Load(f) ==
    IF f.exists
    THEN Pad([i \in 1..Len(f.lines) |-> <<f.lines[i].name, f.lines[i].score>>])
    ELSE Pad(<<>>)

\* Leaderboard.close with changed forgotten: the file is opened in any case
CloseAlways(bd, ch, f) ==
    [file |-> f, changed |-> IF ~f.exists \/ Len(bd) > 0 THEN ch ELSE FALSE,
     raised |-> ~f.exists \/ Len(bd) > 0]

\* Leaderboard.close: [file, changed, raised].  open(FILE) has no mode, so
\* the file is opened for reading: a missing file raises FileNotFoundError,
\* and the first print to an existing one raises io.UnsupportedOperation;
\* either way the file is as it was and changed stays True.
Close(bd, ch, f) ==
    IF ~ch THEN [file |-> f, changed |-> ch, raised |-> FALSE]
    ELSE [file |-> f, changed |-> IF ~f.exists \/ Len(bd) > 0 THEN ch ELSE FALSE,
          raised |-> ~f.exists \/ Len(bd) > 0]

\* Inserted counting an entry of equal score as lower
InsertedOrTie(bd, sc) == \E i \in 1..Len(bd) : bd[i][2] <= sc

\* register_score: the value of inserted after the loop
Inserted(bd, sc) == \E i \in 1..Len(bd) : bd[i][2] < sc

\* RegisterScore inserting at the top of the board
RegisterScoreAtTop(bd, nm, sc) ==
    IF \E i \in 1..Len(bd) : bd[i][2] < sc
    THEN <<<<nm, sc>>>> \o SubSeq(bd, 1, Len(bd) - 1)
    ELSE bd

\* RegisterScore writing over the last entry
RegisterScoreOverLast(bd, nm, sc) ==
    IF \E i \in 1..Len(bd) : bd[i][2] < sc
    THEN [bd EXCEPT ![Len(bd)] = <<nm, sc>>]
    ELSE bd

\* RegisterScore inserting above the entries of equal score
RegisterScoreAboveTies(bd, nm, sc) ==
    IF \E i \in 1..Len(bd) : bd[i][2] < sc
    THEN LET idx == CHOOSE i \in 1..Len(bd) :
                        /\ bd[i][2] <= sc
                        /\ \A j \in 1..(i - 1) : ~(bd[j][2] <= sc)
             ins == SubSeq(bd, 1, idx - 1) \o <<<<nm, sc>>>> \o SubSeq(bd, idx, Len(bd))
         IN  SubSeq(ins, 1, Len(ins) - 1)
    ELSE bd

\* Leaderboard.register_score
RegisterScore(bd, nm, sc) ==
    IF \E i \in 1..Len(bd) : bd[i][2] < sc
    THEN LET idx == CHOOSE i \in 1..Len(bd) :
                        /\ bd[i][2] < sc
                        /\ \A j \in 1..(i - 1) : ~(bd[j][2] < sc)
             ins == SubSeq(bd, 1, idx - 1) \o <<<<nm, sc>>>> \o SubSeq(bd, idx, Len(bd))
         IN  SubSeq(ins, 1, Len(ins) - 1)
    ELSE bd

-----------------------------------------------------------------------------
(* menus.py: LeaderboardAdd.update *)

AddEvents == {"UP", "DOWN", "LEFT", "RIGHT", "RETURN"}
AddEventSeqs == UNION {[1..n -> AddEvents] : n \in 0..MaxEvents}

NewEntry == [name |-> NameAAA, underline |-> 0, edits |-> 0]

\* the number of K_UP / K_DOWN events among es
EditCount(es) == Cardinality({i \in 1..Len(es) : es[i] \in {"UP", "DOWN"}})

\* one KEYDOWN event of LeaderboardAdd.update: st is [entry, active, board,
\* changed]
AddEvent(st, e, sc) ==
    LET u == st.entry.underline + 1
        c == st.entry.name[u]
    IN  IF e = "DOWN"
        THEN [st EXCEPT !.entry.name[u] = IF c = 0 THEN LETTERS - 1 ELSE c - 1,
                        !.entry.edits = @ + 1]
        ELSE IF e = "UP"
        THEN [st EXCEPT !.entry.name[u] = IF c = LETTERS - 1 THEN 0 ELSE c + 1,
                        !.entry.edits = @ + 1]
        ELSE IF e = "LEFT"
        THEN [st EXCEPT !.entry.underline = (@ - 1) % 3]
        ELSE IF e = "RIGHT"
        THEN [st EXCEPT !.entry.underline = (@ + 1) % 3]
        ELSE [st EXCEPT !.active = FALSE,
                        !.board = RegisterScore(st.board, st.entry.name, sc),
                        !.changed = @ \/ Inserted(st.board, sc)]

\* the character "_" that draw() puts at the cursor while blink is set
Underscore == LETTERS

\* AddDraw leaving the "_" in the name
AddDrawNoRestore(e, blink) ==
    IF blink THEN [e EXCEPT !.name[e.underline + 1] = Underscore] ELSE e

\* LeaderboardAdd.draw: the entry after it; temp is put back at the cursor
AddDraw(e, blink) ==
    LET u == e.underline + 1
        temp == e.name[u]
        shown == IF blink THEN [e.name EXCEPT ![u] = Underscore] ELSE e.name
    IN  [e EXCEPT !.name = [shown EXCEPT ![u] = temp]]

RECURSIVE AddEventLoop(_, _, _, _)
AddEventLoop(es, i, st, sc) ==
    IF i > Len(es) THEN st
    ELSE AddEventLoop(es, i + 1, AddEvent(st, es[i], sc), sc)

-----------------------------------------------------------------------------
(* State of the objects that do not exist at the moment *)

NoBall == [pos |-> <<0, 0>>, vel |-> <<0, 0>>, speed |-> 0,
           launched |-> FALSE, alive |-> FALSE]

NoLevelNow ==
    /\ diff' = 0 /\ win' = FALSE /\ score' = 0 /\ lives' = 0 /\ paused' = FALSE
    /\ ball' = NoBall /\ paddle' = <<0, 0>> /\ bricks' = <<>>

NoMenuNow == selection' = 0

NoAddNow == active' = FALSE /\ addScore' = 0 /\ entry' = NewEntry

Did(op, t) == last' = [op |-> op, tick |-> t]

\* Level(d, sc): the ball's direction and the brick samples are random
ConstructLevel(d, sc) ==
    \E dir \in {-1, 1}, rs \in [1..CellCount(ClampDifficulty(d)) -> 0..(RandRes - 1)] :
        /\ diff' = ClampDifficulty(d)
        /\ win' = FALSE
        /\ score' = sc
        /\ lives' = START_LIVES
        /\ paused' = FALSE
        /\ ball' = NewBall(StartBall, BallSpeed(ClampDifficulty(d)), dir)
        /\ bricks' = Generate(ClampDifficulty(d), rs, 1)
        /\ paddle' = StartPaddle

-----------------------------------------------------------------------------
(* main.py: one action per iteration of the host loop in which no QUIT      *)
(* event is seen.  finished() is called first; update (and draw) run when   *)
(* it returns False, next_scene() when it returns True.                     *)

Init ==
    /\ running = TRUE
    /\ scene = "MainMenu"
    /\ selection = 0
    /\ active = FALSE /\ addScore = 0 /\ entry = NewEntry
    /\ board = PlaceholderBoard /\ changed = FALSE /\ file = NoFile
    /\ NoVectorNow
    /\ diff = 0 /\ win = FALSE /\ score = 0 /\ lives = 0 /\ paused = FALSE
    /\ ball = NoBall /\ paddle = <<0, 0>> /\ bricks = <<>> /\ flight = 0
    /\ last = [op |-> "start", tick |-> NoTick]

\* MainMenuUpdate run without finished() having returned False
MainMenuUpdateAlways ==
    /\ running /\ scene = "MainMenu"
    /\ \E click \in {0, 1, -1, 2} :
          selection' = IF click = 0 THEN selection ELSE click
    /\ Did("update", NoTick)
    /\ UNCHANGED <<running, scene, active, addScore, board, changed, file, vec, arg, out, diff, win, score, lives,
                   paused, ball, paddle, bricks, entry, flight>>

\* MainMenu.update: a left click on Start (1), Exit (-1), High Scores (2) or
\* on no button (0)
MainMenuUpdate ==
    /\ running /\ scene = "MainMenu" /\ selection = 0
    /\ \E click \in {0, 1, -1, 2} :
          selection' = IF click = 0 THEN selection ELSE click
    /\ Did("update", NoTick)
    /\ UNCHANGED <<running, scene, active, addScore, board, changed, file, vec, arg, out, diff, win, score, lives,
                   paused, ball, paddle, bricks, entry, flight>>

\* MainMenu.next_scene
MainMenuNext ==
    /\ running /\ scene = "MainMenu" /\ selection # 0
    /\ IF selection = 1
       THEN scene' = "DifficultyMenu" /\ running' = TRUE /\ active' = FALSE
       ELSE IF selection = 2
       THEN scene' = "LeaderboardDisplay" /\ running' = TRUE /\ active' = TRUE
       ELSE scene' = "None" /\ running' = FALSE /\ active' = FALSE
    /\ NoMenuNow
    /\ Did("next", NoTick)
    /\ UNCHANGED <<addScore, board, changed, file, vec, arg, out, diff, win, score, lives,
                   paused, ball, paddle, bricks, entry, flight>>

\* DifficultyMenu.update: a left click on EASY, MEDIUM, HARD or on no button
DifficultyUpdate ==
    /\ running /\ scene = "DifficultyMenu" /\ selection = 0
    /\ \E click \in {0, 1, 2, 3} :
          selection' = IF click = 0 THEN selection ELSE click
    /\ Did("update", NoTick)
    /\ UNCHANGED <<running, scene, active, addScore, board, changed, file, vec, arg, out, diff, win, score, lives,
                   paused, ball, paddle, bricks, entry, flight>>

\* DifficultyMenu.next_scene
DifficultyNext ==
    /\ running /\ scene = "DifficultyMenu" /\ selection # 0
    /\ scene' = "Level"
    /\ ConstructLevel(selection, 0)
    /\ NoMenuNow
    /\ Did("next", NoTick)
    /\ UNCHANGED <<running, active, addScore, board, changed, file, vec, arg, out, entry, flight>>

\* Level.update, after finished() returned False.  x \in {e} binds x to the
\* value of e: the steps of the body in the order the code runs them.
LevelUpdate ==
    /\ running /\ scene = "Level" /\ ~Finished(lives, bricks).ret
    /\ flight < MaxFlight
    /\ win' = Finished(lives, bricks).win
    /\ \E es \in EventSeqs, left \in BOOLEAN, right \in BOOLEAN :
          LET ev == ApplyEvents(es, 1, [launched |-> ball.launched, paused |-> paused])
              b0 == [ball EXCEPT !.launched = ev.launched]
          IN  /\ paused' = ev.paused
              /\ IF ev.paused
                 THEN /\ ball' = b0
                      /\ UNCHANGED <<paddle, bricks, score, lives, flight>>
                      /\ Did("update", NoTick)
                 ELSE \E b1 \in {BallUpdate(b0)} :
                      \E pu \in {PaddleUpdate(paddle, b1, left, right)} :
                      \E bp \in {BrickPhase(pu.ball, bricks, score)} :
                      \E b2 \in {PaddlePhase(bp.ball, pu.paddle)} :
                      \E fp \in {FallPhase(b2, pu.paddle, lives)} :
                          /\ ball' = fp.ball
                          /\ paddle' = pu.paddle
                          /\ bricks' = bp.bricks
                          /\ score' = bp.score
                          /\ lives' = fp.lives
                          /\ flight' = IF Advances(b0) THEN flight + 1 ELSE flight
                          /\ Did("update", TickOf(b0, pu, bp, b2, fp, bricks, lives))
    /\ UNCHANGED <<running, scene, selection, active, addScore, board, changed, file, vec, arg, out, diff, entry>>

\* Level.next_scene, after finished() returned True
LevelNext ==
    /\ running /\ scene = "Level" /\ Finished(lives, bricks).ret
    /\ scene' = NextSceneOf(Finished(lives, bricks).win)
    /\ IF Finished(lives, bricks).win
       THEN /\ ConstructLevel(diff, score)
            /\ UNCHANGED <<active, addScore, entry>>
       ELSE /\ NoLevelNow
            /\ active' = CheckScore(board, score)
            /\ addScore' = score
            /\ entry' = NewEntry
    /\ Did("next", NoTick)
    /\ UNCHANGED <<running, selection, board, changed, file, vec, arg, out, flight>>

\* LeaderboardAdd.update, then LeaderboardAdd.draw, with the KEYDOWN events
\* of the iteration drawn from seqs
AddUpdateOf(seqs) ==
    /\ running /\ scene = "LeaderboardAdd" /\ active
    /\ \E es \in seqs, blink \in BOOLEAN :
          /\ entry.edits + EditCount(es) <= MaxEdits
          /\ LET st == AddEventLoop(es, 1,
                          [entry |-> entry, active |-> active, board |-> board,
                           changed |-> changed],
                          addScore)
             IN  /\ entry' = AddDraw(st.entry, blink) /\ active' = st.active
                 /\ board' = st.board /\ changed' = st.changed
    /\ Did("update", NoTick)
    /\ UNCHANGED <<running, scene, selection, addScore, file, vec, arg, out, diff, win, score, lives,
                   paused, ball, paddle, bricks, flight>>

\* an iteration on a LeaderboardAdd that is not finished
AddUpdate == AddUpdateOf(AddEventSeqs)

\* LeaderboardAdd.next_scene
AddNext ==
    /\ running /\ scene = "LeaderboardAdd" /\ ~active
    /\ scene' = "MainMenu"
    /\ NoMenuNow /\ NoAddNow
    /\ Did("next", NoTick)
    /\ UNCHANGED <<running, board, changed, file, vec, arg, out, diff, win, score, lives,
                   paused, ball, paddle, bricks, flight>>

\* LeaderboardDisplay.update: K_ESCAPE or no such event
DisplayUpdate ==
    /\ running /\ scene = "LeaderboardDisplay" /\ active
    /\ \E esc \in BOOLEAN : active' = IF esc THEN FALSE ELSE active
    /\ Did("update", NoTick)
    /\ UNCHANGED <<running, scene, selection, addScore, board, changed, file, vec, arg, out, diff, win, score, lives,
                   paused, ball, paddle, bricks, entry, flight>>

\* DisplayNext returning a DifficultyMenu
DisplayNextToDifficulty ==
    /\ running /\ scene = "LeaderboardDisplay" /\ ~active
    /\ scene' = "DifficultyMenu"
    /\ NoMenuNow /\ NoAddNow
    /\ Did("next", NoTick)
    /\ UNCHANGED <<running, board, changed, file, vec, arg, out, diff, win, score, lives,
                   paused, ball, paddle, bricks, flight>>

\* LeaderboardDisplay.next_scene
DisplayNext ==
    /\ running /\ scene = "LeaderboardDisplay" /\ ~active
    /\ scene' = "MainMenu"
    /\ NoMenuNow /\ NoAddNow
    /\ Did("next", NoTick)
    /\ UNCHANGED <<running, board, changed, file, vec, arg, out, diff, win, score, lives,
                   paused, ball, paddle, bricks, flight>>

\* An iteration in which a QUIT event is seen: the scene's work is done as
\* above, then running becomes False and the loop ends.  current_scene is a
\* local of main() that nothing reads after the loop, so the scene's fields
\* are cleared here; the leaderboard singleton outlives the loop.
QuitIteration ==
    /\ running
    /\ running' = FALSE
    /\ scene' = "None"
    /\ IF scene = "LeaderboardAdd" /\ active
       THEN \E es \in AddEventSeqs :
               /\ entry.edits + EditCount(es) <= MaxEdits
               /\ LET st == AddEventLoop(es, 1,
                               [entry |-> entry, active |-> active, board |-> board,
                                changed |-> changed],
                               addScore)
                  IN  board' = st.board /\ changed' = st.changed
       ELSE board' = board /\ changed' = changed
    /\ file' = file
    /\ UNCHANGED <<vec, arg, out>>
    /\ NoMenuNow /\ NoAddNow /\ NoLevelNow
    /\ flight' = 0
    /\ Did("quit", NoTick)

\* The statements after the loop: pg.quit(), then Leaderboard.quit(), which
\* runs once the loop has ended by a QUIT event or by next_scene() returning
\* None.
AfterLoop ==
    /\ ~running /\ last.op \in {"quit", "next"}
    /\ file' = Close(board, changed, file).file
    /\ changed' = Close(board, changed, file).changed
    /\ Did(IF Close(board, changed, file).raised THEN "close_raises" ELSE "close",
           NoTick)
    /\ UNCHANGED <<running, scene, selection, active, addScore, board, vec, arg, out,
                   diff, win, score, lives, paused, ball, paddle, bricks, entry,
                   flight>>

Next ==
    \/ MainMenuUpdate \/ MainMenuNext
    \/ DifficultyUpdate \/ DifficultyNext
    \/ LevelUpdate \/ LevelNext
    \/ AddUpdate \/ AddNext
    \/ DisplayUpdate \/ DisplayNext
    \/ QuitIteration
    \/ AfterLoop

Spec == Init /\ [][Next]_vars

\* main() runs to its end: the statements after the loop are not put off for
\* ever
ExitSpec == Spec /\ WF_vars(AfterLoop)

-----------------------------------------------------------------------------
(* Level.finished as a function of the Level's fields: FinSpec starts in any *)
(* Level with up to MaxFinBricks bricks, each intact or not, and 0 to       *)
(* START_LIVES lives, and calls finished() on it.                           *)

FinBricks ==
    UNION {[1..n -> {[pos |-> CellPos(3, 1), intact |-> t] : t \in BOOLEAN}] :
              n \in 0..MaxFinBricks}

FinInit ==
    /\ running = TRUE
    /\ scene = "Level"
    /\ selection = 0
    /\ active = FALSE /\ addScore = 0 /\ entry = NewEntry
    /\ board = PlaceholderBoard /\ changed = FALSE /\ file = NoFile
    /\ NoVectorNow
    /\ diff \in 1..3
    /\ win \in BOOLEAN
    /\ score \in {0, BRICK_SCORE}
    /\ lives \in 0..START_LIVES
    /\ paused = FALSE
    /\ ball = NewBall(StartBall, BallSpeed(diff), 1)
    /\ paddle = StartPaddle
    /\ bricks \in FinBricks
    /\ flight = 0
    /\ last = [op |-> "start", tick |-> NoTick]

\* the host loop's call of current_scene.finished() on a Level
FinishedCall ==
    /\ scene = "Level"
    /\ win' = Finished(lives, bricks).win
    /\ Did(IF Finished(lives, bricks).ret THEN "finished" ELSE "unfinished", NoTick)
    /\ UNCHANGED <<running, scene, selection, active, addScore, board, changed, file, vec, arg, out, diff, score,
                   lives, paused, ball, paddle, bricks, entry, flight>>

FinNext == FinishedCall

FinSpec == FinInit /\ [][FinNext]_vars

-----------------------------------------------------------------------------
(* Ball.update, Paddle.update and Ball.reset as functions of the objects'   *)
(* fields: ObjSpec starts with a ball on, before and beyond each wall, with *)
(* any flags and any direction, and a paddle at either end or at its start  *)
(* position, and calls the three methods in any order.  In ObjSpec the      *)
(* variable flight counts the calls made.                                   *)

\* x of a ball: beyond, on and inside the left wall, mid screen, touching the
\* right wall
ObjBallXs == {-(Scale \div 2), 0, Scale \div 2, (ScreenW \div 2) * Scale,
              (ScreenW - BALL_WIDTH) * Scale}
\* y of a ball: beyond and on the top wall, mid screen, bottom edge on and
\* beyond the screen's bottom
ObjBallYs == {-(Scale \div 2), 0, (ScreenH \div 2) * Scale,
              (ScreenH - BALL_HEIGHT) * Scale,
              (ScreenH - BALL_HEIGHT) * Scale + Scale \div 2}
\* velocities: as Ball.__init__ and Paddle.update set them, and as unit()
\* leaves them
ObjVels == {<<sx * Scale, -Scale>> : sx \in {-1, 1}}
           \cup {Unit(<<sx * Scale, sy * Scale>>) : sx \in {-1, 1}, sy \in {-1, 1}}
ObjPaddles == {<<0, StartPaddle[2]>>, StartPaddle,
               <<(ScreenW - PADDLE_WIDTH) * Scale, StartPaddle[2]>>}

ObjInit ==
    /\ running = TRUE
    /\ scene = "Level"
    /\ selection = 0
    /\ active = FALSE /\ addScore = 0 /\ entry = NewEntry
    /\ board = PlaceholderBoard /\ changed = FALSE /\ file = NoFile
    /\ NoVectorNow
    /\ diff \in 1..3
    /\ win = FALSE /\ score = 0 /\ lives = START_LIVES /\ paused = FALSE
    /\ \E x \in ObjBallXs, y \in ObjBallYs, v \in ObjVels,
          l \in BOOLEAN, a \in BOOLEAN :
          ball = [pos |-> <<x, y>>, vel |-> v, speed |-> BallSpeed(diff),
                  launched |-> l, alive |-> a]
    /\ paddle \in ObjPaddles
    /\ bricks = <<>>
    /\ flight = 0
    /\ last = [op |-> "start", tick |-> NoTick]

\* the history record of a call: the ball's position and velocity before it
ObjTick == [NoTick EXCEPT !.hitPos = ball.pos, !.hitVel = ball.vel]

\* self.ball.update()
BallUpdateCall ==
    /\ flight < MaxCalls
    /\ ball' = BallUpdate(ball)
    /\ flight' = flight + 1
    /\ Did("ball_update", ObjTick)
    /\ UNCHANGED <<running, scene, selection, active, addScore, board, changed, file, vec, arg, out, diff, win,
                   score, lives, paused, paddle, bricks, entry>>

\* self.paddle.update() with the left / right keys held or not
PaddleUpdateCall ==
    /\ flight < MaxCalls
    /\ \E left \in BOOLEAN, right \in BOOLEAN :
          /\ paddle' = PaddleUpdate(paddle, ball, left, right).paddle
          /\ ball' = PaddleUpdate(paddle, ball, left, right).ball
          /\ Did(IF left THEN (IF right THEN "paddle_both" ELSE "paddle_left")
                 ELSE (IF right THEN "paddle_right" ELSE "paddle_none"), ObjTick)
    /\ flight' = flight + 1
    /\ UNCHANGED <<running, scene, selection, active, addScore, board, changed, file, vec, arg, out, diff, win,
                   score, lives, paused, bricks, entry>>

\* self.ball.reset()
BallResetCall ==
    /\ flight < MaxCalls
    /\ ball' = BallReset(ball)
    /\ flight' = flight + 1
    /\ Did("ball_reset", ObjTick)
    /\ UNCHANGED <<running, scene, selection, active, addScore, board, changed, file, vec, arg, out, diff, win,
                   score, lives, paused, paddle, bricks, entry>>

ObjNext == BallUpdateCall \/ PaddleUpdateCall \/ BallResetCall

ObjSpec == ObjInit /\ [][ObjNext]_vars

-----------------------------------------------------------------------------
(* Level.update on a level in mid-game: every cell of the grid holds a     *)
(* brick, each intact or destroyed, the ball is launched and on or next to *)
(* the grid, and MaxCalls advancing updates are left.                      *)

TickBallXs == {HorzStart - 4, HorzStart + 12, HorzStart + BRICK_WIDTH - 1,
               HorzStart + BRICK_WIDTH + 3}
TickBallYs == {VertStart - 4, VertStart + 5, VertStart + BRICK_HEIGHT - 1,
               VertStart + 2 * BRICK_HEIGHT, VertStart + 2 * BRICK_HEIGHT + 4}

\* the grid of difficulty d with the intact flags fl
TickBricks(d, fl) == [n \in 1..CellCount(d) |-> [pos |-> CellPos(d, n), intact |-> fl[n]]]

TickInit ==
    /\ running = TRUE /\ scene = "Level" /\ selection = 0
    /\ active = FALSE /\ addScore = 0 /\ entry = NewEntry
    /\ board = PlaceholderBoard /\ changed = FALSE /\ file = NoFile
    /\ NoVectorNow
    /\ win = FALSE /\ paused = FALSE /\ lives = START_LIVES
    /\ diff \in 1..3
    /\ \E fl \in [1..CellCount(diff) -> BOOLEAN] :
          /\ bricks = TickBricks(diff, fl)
          /\ score = BRICK_SCORE * Cardinality({n \in 1..CellCount(diff) : ~fl[n]})
    /\ paddle = StartPaddle
    /\ \E x \in TickBallXs, y \in TickBallYs, sx \in {-1, 1}, sy \in {-1, 1} :
          ball = [pos |-> Px(x, y), vel |-> Unit(<<sx * Scale, sy * Scale>>),
                  speed |-> BallSpeed(diff), launched |-> TRUE, alive |-> TRUE]
    /\ flight = MaxFlight - MaxCalls
    /\ last = [op |-> "start", tick |-> NoTick]

TickSpec == TickInit /\ [][LevelUpdate]_vars

-----------------------------------------------------------------------------
(* The Leaderboard on its own: constructed from a backing file that is     *)
(* missing or holds up to MaxLines well-formed lines in descending score   *)
(* order, then register calls with the name and score of a LeaderboardAdd, *)
(* then Leaderboard.quit() as main() calls it on its way out.              *)

\* n copies of e
Rep(n, e) == [i \in 1..n |-> e]

\* a line of the file as a well-formed "AAA,score"
LineOf(sc) == [name |-> NameAAA, isInt |-> TRUE, score |-> sc]

BoardFiles ==
    {NoFile} \cup
    {[exists |-> TRUE,
      lines |-> Rep(a, LineOf(2 * BRICK_SCORE)) \o Rep(b, LineOf(BRICK_SCORE))
                    \o Rep(c, LineOf(0))] :
        a \in 0..MaxLines, b \in 0..MaxLines, c \in 0..MaxLines}

RegNames == {NameAAA, <<1, 1, 1>>, <<2, 2, 2>>}
RegScores == {k * BRICK_SCORE : k \in 0..3}

BoardInit ==
    /\ running = TRUE
    /\ scene = "LeaderboardAdd"
    /\ selection = 0
    /\ active = TRUE /\ addScore = 0 /\ entry = NewEntry
    /\ file \in {f \in BoardFiles : Len(f.lines) <= MaxLines}
    /\ board = Load(file) /\ changed = FALSE
    /\ NoVectorNow
    /\ diff = 0 /\ win = FALSE /\ score = 0 /\ lives = 0 /\ paused = FALSE
    /\ ball = NoBall /\ paddle = <<0, 0>> /\ bricks = <<>> /\ flight = 0
    /\ last = [op |-> "start", tick |-> NoTick]

\* Leaderboard.register(name, score); entry.name and addScore hold the
\* arguments of the call
RegisterCall ==
    /\ running /\ flight < MaxCalls
    /\ \E nm \in RegNames, sc \in RegScores :
          /\ entry' = [entry EXCEPT !.name = nm]
          /\ addScore' = sc
          /\ board' = RegisterScore(board, nm, sc)
          /\ changed' = (changed \/ Inserted(board, sc))
          /\ Did(IF Inserted(board, sc) THEN "register_in" ELSE "register_out", NoTick)
    /\ flight' = flight + 1
    /\ UNCHANGED <<running, scene, selection, active, file, vec, arg, out, diff, win, score, lives,
                   paused, ball, paddle, bricks>>

\* Leaderboard.quit(), the last statement of main()
CloseCall ==
    /\ running
    /\ running' = FALSE
    /\ file' = Close(board, changed, file).file
    /\ changed' = Close(board, changed, file).changed
    /\ Did(IF Close(board, changed, file).raised THEN "close_raises" ELSE "close",
           NoTick)
    /\ UNCHANGED <<scene, selection, active, addScore, board, vec, arg, out, diff, win,
                   score, lives, paused, ball, paddle, bricks, entry, flight>>

BoardNext == RegisterCall \/ CloseCall

BoardSpec == BoardInit /\ [][BoardNext]_vars

-----------------------------------------------------------------------------
(* Level(difficulty, score) on its own: selection holds the difficulty     *)
(* argument and addScore the score argument, drawn from ranges that reach  *)
(* beyond the tiers.                                                       *)

DiffArgs == -1..5
ScoreArgs == {k * BRICK_SCORE : k \in 0..5}

NewInit ==
    /\ running = TRUE
    /\ scene = "DifficultyMenu"
    /\ selection \in DiffArgs
    /\ active = FALSE /\ addScore \in ScoreArgs /\ entry = NewEntry
    /\ board = PlaceholderBoard /\ changed = FALSE /\ file = NoFile
    /\ NoVectorNow
    /\ diff = 0 /\ win = FALSE /\ score = 0 /\ lives = 0 /\ paused = FALSE
    /\ ball = NoBall /\ paddle = <<0, 0>> /\ bricks = <<>> /\ flight = 0
    /\ last = [op |-> "start", tick |-> NoTick]

\* Level(selection, addScore)
ConstructCall ==
    /\ running /\ scene = "DifficultyMenu"
    /\ scene' = "Level"
    /\ ConstructLevel(selection, addScore)
    /\ Did("construct", NoTick)
    /\ UNCHANGED <<running, selection, active, addScore, board, changed, file, vec, arg, out,
                   entry, flight>>

NewSpec == NewInit /\ [][ConstructCall]_vars

-----------------------------------------------------------------------------
(* The Vector2D operations on their own: a receiving vector, an operand of *)
(* any type and of up to MaxComps components, and one operation per step.  *)

VecValues == {-Scale, 0, 2 * Scale}

Operands ==
    {[type |-> t, comps |-> c] :
        t \in {"tuple", "list"}, c \in UNION {[1..n -> VecValues] : n \in 0..MaxComps}}
    \cup {[type |-> "Vector2D", comps |-> c] : c \in [1..2 -> VecValues]}
    \cup {[type |-> t, comps |-> <<c>>] : t \in Numeric, c \in VecValues \cup {Scale \div 2}}
    \cup {[type |-> "str", comps |-> [i \in 1..n |-> 0]] : n \in 0..MaxComps}
    \cup {NoArg, [type |-> "dict", comps |-> <<>>]}

VecInit ==
    /\ running = TRUE
    /\ scene = "None"
    /\ selection = 0
    /\ active = FALSE /\ addScore = 0 /\ entry = NewEntry
    /\ board = PlaceholderBoard /\ changed = FALSE /\ file = NoFile
    /\ vec \in {<<Scale, -Scale>>, <<3 * Scale, Scale \div 2>>}
    /\ arg \in Operands
    /\ out = NoOut
    /\ diff = 0 /\ win = FALSE /\ score = 0 /\ lives = 0 /\ paused = FALSE
    /\ ball = NoBall /\ paddle = <<0, 0>> /\ bricks = <<>> /\ flight = 0
    /\ last = [op |-> "start", tick |-> NoTick]

\* the frame of a Vector2D operation: no operation assigns to its receiver
\* or to its operand
VecFrame ==
    UNCHANGED <<running, scene, selection, active, addScore, board, changed, file,
                vec, arg, diff, win, score, lives, paused, ball, paddle, bricks,
                entry, flight>>

\* vec + arg
AddCall == out' = VecAdd(vec, arg) /\ Did("add", NoTick) /\ VecFrame

\* vec - arg
SubCall == out' = VecSub(vec, arg) /\ Did("sub", NoTick) /\ VecFrame

\* vec * arg
MulCall == out' = VecMul(vec, arg) /\ Did("mul", NoTick) /\ VecFrame

\* vec / arg
DivCall == out' = VecDiv(vec, arg) /\ Did("div", NoTick) /\ VecFrame

\* Vector2D.from_list(arg)
FromListCall == out' = FromList(arg) /\ Did("from_list", NoTick) /\ VecFrame

\* Vector2D.from_tuple(arg)
FromTupleCall == out' = FromTuple(arg) /\ Did("from_tuple", NoTick) /\ VecFrame

VecNext ==
    \/ AddCall \/ SubCall \/ MulCall \/ DivCall
    \/ FromListCall \/ FromTupleCall

VecSpec == VecInit /\ [][VecNext]_vars

-----------------------------------------------------------------------------
(* A LeaderboardAdd on its own: constructed with any of three scores on    *)
(* any of three boards, the name and the cursor anywhere an edit can have  *)
(* left them, and up to MaxBurst KEYDOWN events in the queue of one        *)
(* iteration.                                                              *)

BurstSeqs == UNION {[1..n -> AddEvents] : n \in 0..MaxBurst}

AddFiles == {NoFile,
             [exists |-> TRUE, lines |-> Rep(BOARD_SIZE, LineOf(2 * BRICK_SCORE))],
             [exists |-> TRUE, lines |-> Rep(BOARD_SIZE - 1, LineOf(2 * BRICK_SCORE))]}

AddInit ==
    /\ running = TRUE
    /\ scene = "LeaderboardAdd"
    /\ selection = 0
    /\ file \in AddFiles
    /\ board = Load(file) /\ changed = FALSE
    /\ addScore \in {0, BRICK_SCORE, 2 * BRICK_SCORE}
    /\ active = CheckScore(board, addScore)
    /\ \E nm \in [1..3 -> {0, LETTERS - 1}], u \in 0..2 :
          entry = [name |-> nm, underline |-> u, edits |-> 0]
    /\ NoVectorNow
    /\ diff = 0 /\ win = FALSE /\ score = 0 /\ lives = 0 /\ paused = FALSE
    /\ ball = NoBall /\ paddle = <<0, 0>> /\ bricks = <<>> /\ flight = 0
    /\ last = [op |-> "start", tick |-> NoTick]

\* an iteration on a LeaderboardAdd that is not finished, the queue holding
\* up to MaxBurst events
AddBurst == AddUpdateOf(BurstSeqs)

AddSpecNext == AddBurst \/ AddNext

AddSpec == AddInit /\ [][AddSpecNext]_vars

-----------------------------------------------------------------------------
(* Properties.  A step "runs the body" when it is an iteration of the host  *)
(* loop that called Level.update and the update was not frozen by the pause *)
(* flag; last' then describes what the body did.                            *)

\* this step is a call of Level.update
UpdateStep == scene = "Level" /\ last'.op = "update"

\* this step is a call of Level.update whose body ran
BodyStep == UpdateStep /\ last'.tick.ran

\* no brick of the level is intact
NoIntact == \A i \in 1..Len(bricks) : ~bricks[i].intact

\* the ball's rectangle when this step's body made the brick and paddle checks
HitRect == RectOf(last'.tick.hitPos, BALL_WIDTH, BALL_HEIGHT)

\* the ball's velocity at the brick check, as unit() leaves it
HitUnit == Unit(last'.tick.hitVel)

\* HitRect with the vertical / the horizontal displacement of one frame undone
VertUndone ==
    RectOf(<<last'.tick.hitPos[1],
             last'.tick.hitPos[2] - TruncDiv(HitUnit[2] * ball.speed, FPS)>>,
           BALL_WIDTH, BALL_HEIGHT)
HorzUndone ==
    RectOf(<<last'.tick.hitPos[1] - TruncDiv(HitUnit[1] * ball.speed, FPS),
             last'.tick.hitPos[2]>>,
           BALL_WIDTH, BALL_HEIGHT)

\* the bricks this step's body hits: intact before, overlapping HitRect
Struck == {i \in 1..Len(bricks) :
              bricks[i].intact /\ CollideRect(HitRect, BrickRect(bricks[i]))}

\* the struck bricks that ask for a Y bounce / for an X bounce
AsksY == {i \in Struck : ~CollideRect(VertUndone, BrickRect(bricks[i]))}
AsksX == {i \in Struck : /\ CollideRect(VertUndone, BrickRect(bricks[i]))
                         /\ ~CollideRect(HorzUndone, BrickRect(bricks[i]))}

\* C1: in a step that runs the body, if the ball overlaps the paddle at the
\* paddle check, the step flips the velocity's y, leaves the ball atop the
\* paddle, loses no life and does not reset the ball.
C1_BounceLosesNoLife ==
    [][(BodyStep /\ CollideRect(HitRect, RectOf(paddle', PADDLE_WIDTH, PADDLE_HEIGHT)))
         => /\ lives' = lives
            /\ ball'.launched
            /\ ball'.vel[2] = -last'.tick.brickVel[2]
            /\ ball'.pos[2] = paddle'[2] - (BALL_HEIGHT + 1) * Scale]_vars

C1_Witness ==
    /\ scene = "Level" /\ last.op = "update" /\ last.tick.paddleHit
    /\ ball.launched /\ lives = START_LIVES

\* C2: once a life has been lost in a Level and the ball is not launched, a
\* call of Level.update in which Ball.update advances the ball finds the ball
\* on its anchor above the paddle.
C2_AdvanceStartsAnchored ==
    [][(UpdateStep /\ lives < START_LIVES /\ ~ball.launched /\ last'.tick.advanced)
         => ball.pos = Anchor(paddle)]_vars

\* C3: a call of Level.update on a paused Level that leaves it paused changes
\* nothing of the ball, the paddle, the bricks, the score and the lives.
C3_PausedChangesNothing ==
    [][(UpdateStep /\ paused /\ paused')
         => UNCHANGED <<ball, paddle, bricks, score, lives>>]_vars

\* C4: with one life left, a step that runs the body and ends with the
\* ball's bottom edge below the paddle's bottom edge leaves lives = 0, a
\* Level whose finished() is true with win false and whose next_scene() is a
\* LeaderboardAdd; and the step that leaves a Level with no lives enters a
\* LeaderboardAdd holding the Level's score.
C4_LastLifeLost ==
    [][/\ (/\ BodyStep /\ lives = 1
           /\ ball'.pos[2] + BALL_HEIGHT * Scale > paddle'[2] + PADDLE_HEIGHT * Scale)
          => /\ lives' = 0
             /\ Finished(lives', bricks').ret
             /\ ~Finished(lives', bricks').win
             /\ NextSceneOf(Finished(lives', bricks').win) = "LeaderboardAdd"
       /\ (scene = "Level" /\ lives = 0 /\ last'.op = "next")
          => scene' = "LeaderboardAdd" /\ addScore' = score]_vars

C4_Witness ==
    /\ scene = "Level" /\ last.op = "update" /\ last.tick.lifeLost
    /\ lives = 0 /\ ~NoIntact

\* C5: finished() returns true exactly when lives <= 0 or no brick is
\* intact, and leaves win true exactly when lives > 0 and no brick is intact.
C5_FinishedIff ==
    [][/\ (last'.op = "finished") = (lives <= 0 \/ NoIntact)
       /\ win' = (lives > 0 /\ NoIntact)]_vars

C5_Witness ==
    /\ last.op = "finished" /\ lives = 0 /\ bricks # <<>> /\ NoIntact /\ ~win

\* C6: the step that leaves a finished Level enters, when the Level was won,
\* a Level of the same difficulty that starts with the finished Level's
\* score, and when it was lost, a LeaderboardAdd holding that score.
C6_SuccessorOfLevel ==
    [][(scene = "Level" /\ last'.op = "next")
         => /\ (lives > 0 /\ NoIntact)
               => scene' = "Level" /\ diff' = diff /\ score' = score
            /\ (lives <= 0)
               => scene' = "LeaderboardAdd" /\ addScore' = score]_vars

C6_Witness ==
    /\ scene = "Level" /\ last.op = "next" /\ score > 0 /\ lives = START_LIVES

\* C7: a step of the host loop other than a QUIT iteration changes the scene
\* only by next_scene(), and only along MainMenu -> DifficultyMenu,
\* MainMenu -> LeaderboardDisplay, MainMenu -> end of the loop,
\* DifficultyMenu -> Level of the chosen tier, won Level -> Level,
\* lost Level -> LeaderboardAdd, LeaderboardAdd -> MainMenu,
\* LeaderboardDisplay -> MainMenu.
C7_SceneGraph ==
    [][/\ last'.op = "update" => scene' = scene
       /\ last'.op = "next" =>
            \/ scene = "MainMenu" /\ scene' \in {"DifficultyMenu", "LeaderboardDisplay"}
            \/ scene = "MainMenu" /\ scene' = "None" /\ ~running'
            \/ /\ scene = "DifficultyMenu" /\ scene' = "Level"
               /\ diff' = selection /\ diff' \in {1, 2, 3}
            \/ scene = "Level" /\ lives > 0 /\ NoIntact /\ scene' = "Level"
            \/ scene = "Level" /\ lives <= 0 /\ scene' = "LeaderboardAdd"
            \/ scene = "LeaderboardAdd" /\ scene' = "MainMenu"
            \/ scene = "LeaderboardDisplay" /\ scene' = "MainMenu"]_vars

C7_Witness ==
    /\ scene = "MainMenu" /\ last.op = "next" /\ board # PlaceholderBoard

\* C8: a step that runs the body destroys exactly the intact bricks that
\* overlap the ball's rectangle, leaves every other brick as it was, and adds
\* 100 to the score for each brick it destroys.
C8_EveryStruckBrick ==
    [][BodyStep
         => /\ Len(bricks') = Len(bricks)
            /\ \A i \in 1..Len(bricks) :
                  /\ bricks'[i].pos = bricks[i].pos
                  /\ bricks'[i].intact = (bricks[i].intact /\ i \notin Struck)
            /\ score' = score + BRICK_SCORE * Cardinality(Struck)]_vars

C8_Witness ==
    /\ scene = "Level" /\ last.op = "update" /\ Cardinality(last.tick.hits) >= 2
    /\ \A i \in last.tick.hits : ~bricks[i].intact
    /\ score >= 2 * BRICK_SCORE

C10_OneFlipPerAxis ==
    [][BodyStep
         => /\ last'.tick.brickVel[1] =
                  IF AsksX # {} THEN -last'.tick.hitVel[1] ELSE last'.tick.hitVel[1]
            /\ last'.tick.brickVel[2] =
                  IF AsksY # {} THEN -last'.tick.hitVel[2] ELSE last'.tick.hitVel[2]]_vars

C10_Witness ==
    /\ scene = "Level" /\ last.op = "update" /\ Cardinality(last.tick.hits) >= 2
    /\ \A i \in last.tick.hits :
          /\ CollideRect(LastVerticalRect([ball EXCEPT !.pos = last.tick.hitPos,
                                                       !.vel = last.tick.hitVel]),
                         BrickRect(bricks[i]))
          /\ ~CollideRect(LastHorizontalRect([ball EXCEPT !.pos = last.tick.hitPos,
                                                          !.vel = last.tick.hitVel]),
                          BrickRect(bricks[i]))
    /\ last.tick.brickVel = <<-last.tick.hitVel[1], last.tick.hitVel[2]>>

\* C11: in a step that runs the body, if the ball overlaps the paddle at the
\* paddle check with velocity (vx, vy), vy > 0, the ball leaves the step with
\* velocity (vx, -vy), y = paddle.y - (ball height + 1), x unchanged, and its
\* rectangle no longer overlaps the paddle's.
C11_PaddleResolution ==
    [][(/\ BodyStep
        /\ CollideRect(HitRect, RectOf(paddle', PADDLE_WIDTH, PADDLE_HEIGHT))
        /\ last'.tick.brickVel[2] > 0)
         => /\ ball'.vel = <<last'.tick.brickVel[1], -last'.tick.brickVel[2]>>
            /\ ball'.pos = <<last'.tick.hitPos[1],
                             paddle'[2] - (BALL_HEIGHT + 1) * Scale>>
            /\ ~CollideRect(RectOf(ball'.pos, BALL_WIDTH, BALL_HEIGHT),
                            RectOf(paddle', PADDLE_WIDTH, PADDLE_HEIGHT))]_vars

C11_Witness ==
    /\ scene = "Level" /\ last.op = "update" /\ last.tick.paddleHit
    /\ last.tick.brickVel[2] > 0 /\ ball.vel[2] < 0
    /\ ball.pos[2] # last.tick.hitPos[2]
    /\ ball.pos[2] = paddle[2] - (BALL_HEIGHT + 1) * Scale

\* C12: Ball.update on a launched, alive ball that is on the screen with
\* pos.x = 0 and velocity x < 0 leaves velocity x > 0 and pos.x >= 0.
C12_LeftWallAtZero ==
    [][(/\ last'.op = "ball_update"
        /\ ball.launched /\ ball.alive
        /\ ball.pos[2] + BALL_HEIGHT * Scale <= ScreenH * Scale
        /\ ball.pos[1] = 0 /\ ball.vel[1] < 0)
         => ball'.vel[1] > 0 /\ ball'.pos[1] >= 0]_vars

\* the Level was constructed by the previous step of the host loop
Fresh == scene = "Level" /\ last.op = "next"

\* the ball's start position moved by unit(velocity) * 75 * (1/60)
OneEasyStep ==
    <<StartBall[1] + TruncDiv(Unit(ball.vel)[1] * 75, FPS),
      StartBall[2] + TruncDiv(Unit(ball.vel)[2] * 75, FPS)>>

\* C13 as stated: the first Level.update of a fresh Level of difficulty 1,
\* with no launch, no pause, no paddle move and no brick struck, leaves the
\* ball at its start position moved by unit(velocity) * 75 * (1/60).
C13_FirstUpdateNoInput ==
    [][(/\ Fresh /\ diff = 1 /\ BodyStep /\ Struck = {}
        /\ ~ball'.launched /\ ~last'.tick.lifeLost /\ paddle' = paddle)
         => ball'.pos = OneEasyStep]_vars

\* C13 amended: the first Level.update of a fresh Level of difficulty 1 that
\* strikes no brick moves a ball launched in that call from its start
\* position by unit(velocity) * 75 * (1/60); a ball that is not launched is
\* put on the paddle's anchor instead.
C13_FirstUpdate ==
    [][(Fresh /\ diff = 1 /\ BodyStep /\ Struck = {})
         => /\ ball.speed = 75 /\ ball.pos = StartBall
            /\ IF last'.tick.advanced
               THEN ball'.launched /\ ball'.pos = OneEasyStep
               ELSE /\ ~ball'.launched
                    /\ ball'.pos = <<paddle'[1] + ((PADDLE_WIDTH - BALL_WIDTH) \div 2) * Scale,
                                     paddle'[2] - (BALL_HEIGHT + 1) * Scale>>]_vars

C13_Witness ==
    /\ scene = "Level" /\ diff = 1 /\ last.op = "update" /\ last.tick.advanced
    /\ ball.launched /\ flight = 1 /\ last.tick.hits = {}
    /\ ball.pos[1] - StartBall[1] = TruncDiv(ball.vel[1] * 75, FPS)
    /\ ball.pos[2] - StartBall[2] = TruncDiv(ball.vel[2] * 75, FPS)

\* C14: a step that runs the body with the ball not launched leaves the ball
\* at paddle.pos + ((paddle width - ball width) / 2, -(ball height + 1)),
\* that is paddle.pos + (22.5, -6).
C14_AnchorCentered ==
    [][(BodyStep /\ ~ball'.launched /\ ~last'.tick.lifeLost)
         => ball'.pos = <<paddle'[1] + ((PADDLE_WIDTH - BALL_WIDTH) * Scale) \div 2,
                          paddle'[2] - (BALL_HEIGHT + 1) * Scale>>]_vars


\* a call of Ball.update on the object
BallCall == last'.op = "ball_update"

\* C15: a call of Ball.update on a ball that is not launched changes nothing of
\* the ball, whatever its position, velocity and alive flag.
C15_UnlaunchedUntouched == [][(BallCall /\ ~ball.launched) => ball' = ball]_vars

\* an unlaunched ball beyond the left wall, heading left and below the screen
\* heading down, after a call of Ball.update that left it as it was
C15_Witness ==
    /\ last.op = "ball_update" /\ ~ball.launched /\ ball.alive
    /\ ball.pos = last.tick.hitPos /\ ball.vel = last.tick.hitVel
    /\ ball.pos[1] < 0 /\ ball.vel[1] < 0
    /\ ball.pos[2] + BALL_HEIGHT * Scale > ScreenH * Scale /\ ball.vel[2] > 0

\* C16: after every Paddle.update of a running Level the paddle's top-left
\* corner lies in [0, screen width - 50] x [0, screen height - 10], and its y
\* is the one it was constructed with.
C16_PaddleInBounds ==
    (scene = "Level" /\ last.op = "update" /\ last.tick.ran)
        => /\ 0 <= paddle[1] /\ paddle[1] <= (ScreenW - PADDLE_WIDTH) * Scale
           /\ 0 <= paddle[2] /\ paddle[2] <= (ScreenH - PADDLE_HEIGHT) * Scale
           /\ paddle[2] = StartPaddle[2]

\* the paddle at the left wall, where whole steps from its start cannot put it
C16_Witness ==
    /\ scene = "Level" /\ last.op = "update" /\ last.tick.ran
    /\ StartPaddle[1] % PaddleStep # 0
    /\ paddle[1] = 0

\* a call of Paddle.update on the object
PaddleCall == last'.op \in {"paddle_left", "paddle_right", "paddle_both", "paddle_none"}

\* C17: a left move of the paddle sets the x of an unlaunched ball's velocity
\* to -1 and a right move sets it to +1, the velocity's y being kept; a
\* launched ball is left as it was by Paddle.update.
C17_SteersUnlaunched ==
    [][/\ (last'.op = "paddle_left" /\ ~ball.launched)
              => ball'.vel = <<-Scale, ball.vel[2]>>
       /\ (last'.op = "paddle_right" /\ ~ball.launched)
              => ball'.vel = <<Scale, ball.vel[2]>>
       /\ (PaddleCall /\ ball.launched) => ball' = ball]_vars

\* an unlaunched ball that was heading right, heading left after a left move
C17_Witness ==
    /\ last.op = "paddle_left" /\ ~ball.launched
    /\ last.tick.hitVel[1] > 0
    /\ ball.vel = <<-Scale, last.tick.hitVel[2]>>

\* C18: Ball.update on a launched ball whose bottom edge is beyond the screen's
\* height while it heads down leaves it not alive; a ball that is not alive is
\* left where it is, with its velocity, and stays not alive through
\* Ball.update and Paddle.update; Ball.reset makes it alive and unlaunched.
C18_DeadBelowScreen ==
    [][/\ (BallCall /\ ball.launched /\ ball.vel[2] > 0
                /\ ball.pos[2] + BALL_HEIGHT * Scale > ScreenH * Scale)
              => ~ball'.alive
       /\ (BallCall /\ ball.launched /\ ~ball'.alive)
              => ball'.pos = ball.pos /\ ball'.vel = ball.vel
       /\ ((BallCall \/ PaddleCall) /\ ~ball.alive) => ~ball'.alive
       /\ last'.op = "ball_reset"
              => ball' = [ball EXCEPT !.alive = TRUE, !.launched = FALSE]]_vars

\* a launched ball whose bottom edge was half a pixel beyond the screen,
\* not alive after the second call and where it was
C18_Witness ==
    /\ last.op = "ball_update" /\ flight = MaxCalls
    /\ ball.launched /\ ~ball.alive
    /\ ball.pos = last.tick.hitPos /\ ball.vel[2] > 0
    /\ ball.pos[2] = (ScreenH - BALL_HEIGHT) * Scale + Scale \div 2

\* the velocity of a ball after the wall tests of Ball.update
Reflected ==
    <<IF \/ ball.pos[1] < 0 /\ ball.vel[1] < 0
         \/ ball.pos[1] + BALL_WIDTH * Scale >= ScreenW * Scale /\ ball.vel[1] > 0
      THEN -ball.vel[1] ELSE ball.vel[1],
      IF ball.pos[2] <= 0 /\ ball.vel[2] < 0 THEN -ball.vel[2] ELSE ball.vel[2]>>

\* C19: when Ball.update moves a ball, the ball moves by the velocity the wall
\* tests left, so a ball that meets a wall test moves away from that wall in
\* the same call.
C19_ReflectThenAdvance ==
    [][(BallCall /\ ball.launched /\ ball.alive
            /\ ~(ball.pos[2] + BALL_HEIGHT * Scale > ScreenH * Scale /\ ball.vel[2] > 0))
        => /\ ball'.vel = Unit(Reflected)
           /\ ball'.pos = <<ball.pos[1] + TruncDiv(ball'.vel[1] * ball.speed, FPS),
                            ball.pos[2] + TruncDiv(ball'.vel[2] * ball.speed, FPS)>>
           /\ (ball.pos[1] < 0 /\ ball.vel[1] < 0) => ball'.pos[1] > ball.pos[1]
           /\ (ball.pos[1] + BALL_WIDTH * Scale >= ScreenW * Scale /\ ball.vel[1] > 0)
                  => ball'.pos[1] < ball.pos[1]
           /\ (ball.pos[2] <= 0 /\ ball.vel[2] < 0) => ball'.pos[2] > ball.pos[2]]_vars

\* a ball that was at the right wall and beyond the top, heading up and right,
\* now further left and further down
C19_Witness ==
    /\ last.op = "ball_update" /\ ball.launched /\ ball.alive
    /\ last.tick.hitPos[1] + BALL_WIDTH * Scale >= ScreenW * Scale
    /\ last.tick.hitPos[2] < 0
    /\ last.tick.hitVel[1] > 0 /\ last.tick.hitVel[2] < 0
    /\ ball.pos[1] < last.tick.hitPos[1] /\ ball.pos[2] > last.tick.hitPos[2]
    /\ ball.vel[1] < 0 /\ ball.vel[2] > 0


\* C20: a call of Level.update keeps the number and the positions of the
\* level's bricks and never makes a destroyed brick intact; the score grows by
\* BRICK_SCORE for each intact brick the ball overlaps and by nothing else, and
\* a bounce flag is set only when some intact brick is overlapped, so a
\* destroyed brick the ball overlaps adds no score and sets no flag.
C20_BricksPermanent ==
    [][UpdateStep
        => /\ Len(bricks') = Len(bricks)
           /\ \A i \in 1..Len(bricks) :
                  /\ bricks'[i].pos = bricks[i].pos
                  /\ ~bricks[i].intact => ~bricks'[i].intact
           /\ ~last'.tick.ran => score' = score
           /\ last'.tick.ran
                  => /\ score' = score + BRICK_SCORE * Cardinality(Struck)
                     /\ (last'.tick.bounceX \/ last'.tick.bounceY) => Struck # {}
                     /\ Struck = {} => last'.tick.brickVel = last'.tick.hitVel]_vars

\* after an update the ball's rectangle at the brick check overlapped a brick
\* that was destroyed before, and nothing was hit and no flag set
C20_Witness ==
    /\ scene = "Level" /\ last.op = "update" /\ last.tick.ran
    /\ last.tick.hits = {} /\ ~last.tick.bounceX /\ ~last.tick.bounceY
    /\ \E i \in 1..Len(bricks) :
           /\ ~bricks[i].intact
           /\ CollideRect(RectOf(last.tick.hitPos, BALL_WIDTH, BALL_HEIGHT),
                          BrickRect(bricks[i]))


\* this step is a call of Leaderboard.register; entry'.name and addScore' are
\* its arguments
RegStep == last'.op \in {"register_in", "register_out"}

\* no entry of the board has a score strictly lower than sc
NotTop(sc) == \A i \in 1..Len(board) : ~(board[i][2] < sc)

\* C21: a register call whose score is not strictly above any entry's score
\* leaves the entries and their order as they were and leaves the changed
\* flag as it was.
C21_NotTopUnchanged ==
    [][(RegStep /\ NotTop(addScore')) => board' = board /\ changed' = changed]_vars

\* a clean board after a register call of a positive score equal to the last
\* entry's: the tie kept the caller's name off the board
C21_Witness ==
    /\ last.op = "register_out" /\ ~changed
    /\ addScore > 0 /\ board[Len(board)][2] = addScore
    /\ entry.name # NameAAA
    /\ \A i \in 1..Len(board) : board[i][1] = NameAAA

C23_Descending ==
    \A i \in 1..Len(board) : \A j \in i..Len(board) : board[i][2] >= board[j][2]

\* after MaxCalls register calls that both inserted: three different scores
\* on the board, the latest entry strictly between its neighbours
C23_Witness ==
    /\ last.op = "register_in" /\ flight = MaxCalls
    /\ \E r \in 2..(Len(board) - 1) :
          /\ board[r] = <<entry.name, addScore>>
          /\ board[r - 1][2] > addScore /\ board[r - 1][1] # NameAAA
          /\ board[r + 1][2] < addScore

\* C24: the board holds exactly ten entries at load and after every call.
C24_TenEntries == Len(board) = BOARD_SIZE

\* C25: a register call that inserts puts the new entry below every entry of
\* the same score that was on the board, and those entries keep their ranks.
C25_TiesBelow ==
    [][(RegStep /\ last'.op = "register_in")
        => \E r \in 1..Len(board) :
              /\ board' = SubSeq(board, 1, r - 1) \o <<<<entry'.name, addScore'>>>>
                              \o SubSeq(board, r, Len(board) - 1)
              /\ \A j \in 1..Len(board) : board[j][2] = addScore' => j < r]_vars

\* two registrations of one score under different names: the entry of the
\* latest call is right below the entry of the earlier one
C25_Witness ==
    /\ last.op = "register_in" /\ flight = MaxCalls
    /\ \E r \in 2..Len(board) :
          /\ board[r] = <<entry.name, addScore>>
          /\ board[r - 1][2] = addScore
          /\ board[r - 1][1] \notin {NameAAA, entry.name}
          /\ \A j \in 1..Len(board) : j # r => board[j][1] # entry.name


\* this step is the call of Leaderboard.quit
CloseStep == last'.op \in {"close", "close_raises"}

\* the file that holds the board as one "name,score" line per entry, in rank
\* order
FileOfBoard ==
    [exists |-> TRUE,
     lines |-> [i \in 1..Len(board) |->
                   [name |-> board[i][1], isInt |-> TRUE, score |-> board[i][2]]]]

\* C26: Leaderboard.quit on a changed board returns without an error, leaves
\* the file holding the entries in rank order and changed False, and a
\* leaderboard constructed from that file has the same entries.
C26_RoundTrip ==
    [][(CloseStep /\ changed)
        => /\ last'.op = "close"
           /\ file' = FileOfBoard
           /\ ~changed'
           /\ ~LoadRaises(file') /\ Load(file') = board]_vars

\* C27: changed is False after load; it becomes True only in a register call
\* that inserted an entry; Leaderboard.quit with changed False returns without
\* an error and leaves the file, the board and changed as they were.
C27_CleanCloseIdle ==
    [][/\ last.op = "start" => ~changed
       /\ (changed' /\ ~changed) => (last'.op = "register_in" /\ board' # board)
       /\ (CloseStep /\ ~changed)
              => /\ last'.op = "close"
                 /\ file' = file /\ board' = board /\ ~changed']_vars

\* Leaderboard.quit returned after MaxCalls register calls that inserted
\* nothing, the backing file still missing
C27_Witness ==
    /\ last.op = "close" /\ ~running /\ flight = MaxCalls
    /\ ~changed /\ ~file.exists
    /\ board = PlaceholderBoard


\* the state right after Level(selection, addScore) returned
Constructed == scene = "Level" /\ last.op = "construct"

\* the number of bricks at the position of grid cell (i, j)
BricksAt(i, j) ==
    Cardinality({k \in 1..Len(bricks) :
        bricks[k].pos = Px(HorzStart + i * (BRICK_WIDTH + 1),
                           VertStart + j * (BRICK_HEIGHT + 1))})

\* C28: a Level constructed with difficulty 3 or more holds exactly
\* horz_bricks * vert_bricks bricks, one at each grid position, all intact,
\* whatever the samples of the random number generator.
C28_FullGrid ==
    (Constructed /\ selection >= 3)
        => /\ Len(bricks) = HorzBricks * VertBricks(3)
           /\ \A i \in 0..(HorzBricks - 1) : \A j \in 0..(VertBricks(3) - 1) :
                  BricksAt(i, j) = 1
           /\ \A k \in 1..Len(bricks) : bricks[k].intact

\* a Level constructed with a difficulty above 3: a grid of more than one
\* cell, each holding its brick
C28_Witness ==
    /\ Constructed /\ selection > 3 /\ diff = 3
    /\ Len(bricks) > 1
    /\ BricksAt(0, 0) = 1 /\ BricksAt(HorzBricks - 1, VertBricks(3) - 1) = 1
    /\ bricks[1].pos # bricks[Len(bricks)].pos

\* the tier of a difficulty argument
TierOf(d) == IF d < 1 THEN 1 ELSE IF d > 3 THEN 3 ELSE d

\* C29: Level(difficulty, score) leaves diff at the tier of the argument, the
\* ball speed at 75 / 150 / 200, the vertical fill at 0.3 / 0.3 / 0.5 and the
\* brick probability at 0.3 / 0.5 / 1.0 of that tier, no brick below the rows
\* the fill allows, lives 3, paused and win False, the score given, and the
\* ball unlaunched and alive.
C29_Construction ==
    Constructed
        => /\ diff = TierOf(selection)
           /\ ball.speed = (IF diff = 1 THEN 75 ELSE IF diff = 2 THEN 150 ELSE 200)
           /\ VertSpread(diff) = (IF diff = 3 THEN 5 ELSE 3)
           /\ BrickProb(diff) = (IF diff = 1 THEN 3 ELSE IF diff = 2 THEN 5 ELSE 10)
           /\ \A k \in 1..Len(bricks) :
                  bricks[k].pos[2] <
                      (VertStart + ((((IF diff = 3 THEN 5 ELSE 3) * ScreenH) \div 10)
                                        \div (BRICK_HEIGHT + 3)) * (BRICK_HEIGHT + 1)) * Scale
           /\ lives = 3 /\ ~paused /\ ~win
           /\ score = addScore
           /\ ~ball.launched /\ ball.alive

\* a Level constructed with a difficulty below 1 and a positive score: the
\* easy tier, with the score carried
C29_Witness ==
    /\ Constructed /\ selection < 1
    /\ diff = 1 /\ ball.speed = 75
    /\ addScore > 0 /\ score = addScore
    /\ lives = START_LIVES /\ ~ball.launched /\ ball.alive


\* the outcome is the exception e: nothing was returned
Raised(e) == out' = [kind |-> e, vec |-> <<0, 0>>, num |-> 0]

\* C30: + and - raise TypeError for an operand that is not a Vector2D, tuple
\* or list and ValueError for one of fewer than 2 components; * raises
\* TypeError for an operand that is neither a number nor a sequence of 2 or
\* more components, / for one that is not a number; from_list and from_tuple
\* raise TypeError for another container and ValueError for fewer than 2
\* elements; the receiving vector and the operand are as they were.
C30_MalformedRejected ==
    [][/\ (last'.op \in {"add", "sub"} /\ arg.type \notin {"Vector2D", "tuple", "list"})
              => Raised("TypeError")
       /\ (last'.op \in {"add", "sub"} /\ arg.type \in {"Vector2D", "tuple", "list"}
                /\ Len(arg.comps) < 2)
              => Raised("ValueError")
       /\ (last'.op = "mul" /\ arg.type \notin {"int", "float"}
                /\ ~(arg.type \in {"Vector2D", "tuple", "list"} /\ Len(arg.comps) >= 2))
              => Raised("TypeError")
       /\ (last'.op = "div" /\ arg.type \notin {"int", "float"})
              => Raised("TypeError")
       /\ (last'.op = "from_list" /\ arg.type # "list") => Raised("TypeError")
       /\ (last'.op = "from_tuple" /\ arg.type # "tuple") => Raised("TypeError")
       /\ (last'.op = "from_list" /\ arg.type = "list" /\ Len(arg.comps) < 2)
              => Raised("ValueError")
       /\ (last'.op = "from_tuple" /\ arg.type = "tuple" /\ Len(arg.comps) < 2)
              => Raised("ValueError")
       /\ last'.op \in {"add", "sub", "mul", "div", "from_list", "from_tuple"}
              => vec' = vec /\ arg' = arg]_vars

\* a one-component tuple added to a vector: ValueError, the vector as it was
C30_Witness ==
    /\ last.op = "add" /\ out.kind = "ValueError"
    /\ arg.type = "tuple" /\ Len(arg.comps) = 1
    /\ vec # <<0, 0>>


\* C31: while the scene is a Level its lives are in 0..3, and a call of
\* Level.update leaves them as they were or takes exactly one.
C31_LivesInRange ==
    [][/\ scene = "Level" => lives \in 0..3
       /\ scene' = "Level" => lives' \in 0..3
       /\ UpdateStep => (lives' = lives \/ lives' = lives - 1)
       /\ (scene' = "Level" /\ last'.op = "next") => lives' = 3]_vars

\* a Level that has just lost its last life
C31_Witness ==
    /\ scene = "Level" /\ last.op = "update" /\ last.tick.lifeLost
    /\ lives = 0


\* the number of bricks of bs that are not intact
Destroyed(bs) == Cardinality({i \in 1..Len(bs) : ~bs[i].intact})

\* C32: a Level is constructed with every brick intact and with the score it
\* is given (0 from the difficulty menu, the score of the level before it
\* after a win), and every call of Level.update keeps score - 100 * (number of
\* bricks not intact) as it was; so the score is the constructor's score plus
\* 100 per destroyed brick, never decreases, and counts each brick once.
C32_ScoreCountsBricks ==
    [][/\ (scene' = "Level" /\ last'.op = "next")
              => /\ Destroyed(bricks') = 0
                 /\ score' = (IF scene = "Level" THEN score ELSE 0)
       /\ UpdateStep
              => /\ score' - 100 * Destroyed(bricks') = score - 100 * Destroyed(bricks)
                 /\ score' >= score
                 /\ Destroyed(bricks') >= Destroyed(bricks)]_vars

\* a level that was given a positive score by the level won before it, with
\* a brick of its own destroyed
C32_Witness ==
    /\ scene = "Level" /\ last.op = "update"
    /\ Destroyed(bricks) >= 1
    /\ score > 100 * Destroyed(bricks)


\* C33: in every state of a Level the ball is alive and the paddle's bottom
\* edge is above the screen's bottom edge, and after an update whose body ran
\* no launched ball has its bottom edge below the paddle's bottom edge: the
\* tick in which it gets there resets it.
C33_AlwaysAlive ==
    scene = "Level"
        => /\ ball.alive
           /\ paddle[2] + PADDLE_HEIGHT * Scale < ScreenH * Scale
           /\ (last.op = "update" /\ last.tick.ran)
                  => ~(/\ ball.launched
                       /\ ball.pos[2] + BALL_HEIGHT * Scale
                              > paddle[2] + PADDLE_HEIGHT * Scale)

\* the ball after the tick in which it passed the paddle: reset where it is,
\* below the paddle's bottom edge and above the screen's, alive
C33_Witness ==
    /\ scene = "Level" /\ last.op = "update" /\ last.tick.lifeLost
    /\ ball.alive /\ ~ball.launched
    /\ ball.pos[2] + BALL_HEIGHT * Scale > paddle[2] + PADDLE_HEIGHT * Scale
    /\ ball.pos[2] + BALL_HEIGHT * Scale <= ScreenH * Scale


\* C34: whenever the paddle check of an update finds the ball overlapping the
\* paddle, the ball's velocity y is positive at that moment, and the update
\* leaves the velocity y negative and the ball at paddle.y - 6.
C34_PaddleHitFromAbove ==
    [][(BodyStep /\ CollideRect(HitRect, RectOf(paddle', PADDLE_WIDTH, PADDLE_HEIGHT)))
         => /\ last'.tick.brickVel[2] > 0
            /\ ball'.vel[2] < 0
            /\ ball'.pos[2] = paddle'[2] - 6 * Scale]_vars

\* a paddle collision of a level that has lost a life: the ball heading up
\* from paddle.y - 6
C34_Witness ==
    /\ scene = "Level" /\ last.op = "update" /\ last.tick.paddleHit
    /\ lives < START_LIVES
    /\ ball.launched /\ ball.vel[2] < 0
    /\ ball.pos[2] = paddle[2] - 6 * Scale


\* C35: an iteration on a LeaderboardAdd leaves the board as it was or as one
\* register call of the scene's score under the scene's name leaves it, and
\* changes it only if the scene was active; a scene that is not active goes
\* to MainMenu with the board as it was.
C35_RegistersOnce ==
    [][/\ (scene = "LeaderboardAdd" /\ last'.op = "update")
              => /\ \/ board' = board
                    \/ \E nm \in {entry.name, entry'.name} :
                           board' = RegisterScore(board, nm, addScore)
                 /\ board' # board => (active /\ ~active')
       /\ (scene = "LeaderboardAdd" /\ last'.op = "next")
              => (~active /\ scene' = "MainMenu" /\ board' = board)]_vars


\* nm is three letters, each one of 'A'..'Z'
ThreeLetters(nm) == Len(nm) = 3 /\ \A i \in 1..3 : nm[i] \in 0..25

\* the entry after the single KEYDOWN event e on the current entry
AfterKey(e) ==
    AddEvent([entry |-> entry, active |-> active, board |-> board,
              changed |-> changed], e, addScore).entry

\* C40: before and after every iteration on a LeaderboardAdd the name is three
\* letters of 'A'..'Z' and the cursor is in 0..2; every single key event keeps
\* that, K_UP and K_DOWN change only the letter at the cursor, to the next and
\* to the previous letter of the alphabet taken round ('Z' up gives 'A', 'A'
\* down gives 'Z'), K_LEFT and K_RIGHT move the cursor by one modulo 3; an
\* iteration without K_UP and K_DOWN, draw included, leaves the name as it
\* was; every name on the board is three letters of 'A'..'Z'.
C40_NameThreeLetters ==
    [][/\ scene = "LeaderboardAdd"
              => /\ ThreeLetters(entry.name) /\ entry.underline \in 0..2
                 /\ \A e \in AddEvents :
                        /\ ThreeLetters(AfterKey(e).name)
                        /\ AfterKey(e).underline \in 0..2
                        /\ \A i \in 1..3 :
                               AfterKey(e).name[i] =
                                   IF i # entry.underline + 1 THEN entry.name[i]
                                   ELSE IF e = "UP" THEN (entry.name[i] + 1) % 26
                                   ELSE IF e = "DOWN" THEN (entry.name[i] + 25) % 26
                                   ELSE entry.name[i]
                        /\ AfterKey(e).underline =
                               IF e = "LEFT" THEN (entry.underline + 2) % 3
                               ELSE IF e = "RIGHT" THEN (entry.underline + 1) % 3
                               ELSE entry.underline
       /\ scene' = "LeaderboardAdd"
              => ThreeLetters(entry'.name) /\ entry'.underline \in 0..2
       /\ (scene = "LeaderboardAdd" /\ last'.op = "update" /\ entry'.edits = entry.edits)
              => entry'.name = entry.name
       /\ \A i \in 1..Len(board') : ThreeLetters(board'[i][1])]_vars

\* the name "AAA" after one edit, which took a 'Z' up to 'A', registered on
\* the board
C40_Witness ==
    /\ scene = "LeaderboardAdd" /\ last.op = "update"
    /\ entry.edits = 1 /\ entry.name = NameAAA
    /\ ~active /\ changed
    /\ \E i \in 1..Len(board) : board[i] = <<NameAAA, addScore>> /\ addScore > 0


\* C36: for every register call, check_score of the call's score on the board
\* before the call is true exactly when the call changes the board, and it is
\* true exactly when some entry has a strictly lower score; a score equal to
\* the last entry's and above no entry's is not a top score.
C36_CheckIffInsert ==
    [][RegStep => /\ CheckScore(board, addScore') <=> board' # board
                  /\ CheckScore(board, addScore') <=> ~NotTop(addScore')
                  /\ (addScore' = board[Len(board)][2] /\ NotTop(addScore'))
                         => ~CheckScore(board, addScore')]_vars

\* the placeholder board after a register call of score 0: the check is
\* false and the board is as it was
C36_Witness ==
    /\ last.op = "register_out" /\ addScore = 0
    /\ board = PlaceholderBoard /\ ~changed
    /\ ~CheckScore(board, addScore)


\* finished() of the current scene
SceneFinished ==
    IF scene \in {"MainMenu", "DifficultyMenu"} THEN selection # 0
    ELSE IF scene = "Level" THEN Finished(lives, bricks).ret
    ELSE ~active

\* Leaderboard.quit() has been called
QuitCalled == last.op \in {"close", "close_raises"}

\* C37: an iteration runs update only on a scene whose finished() is false
\* and next_scene() only on one whose finished() is true; running falls
\* exactly in an iteration that sees a QUIT event or whose next_scene()
\* returns None; no iteration runs once running is false; Leaderboard.quit()
\* is called only after the loop, and after the loop has ended it is called.
C37_HostLoop ==
    /\ [][/\ last'.op = "update" => running /\ scene # "None" /\ ~SceneFinished
          /\ last'.op = "next" => running /\ scene # "None" /\ SceneFinished
          /\ (last'.op = "quit" /\ (board' # board \/ changed' # changed))
                 => ~SceneFinished
          /\ (running /\ ~running')
                 <=> \/ last'.op = "quit"
                     \/ last'.op = "next" /\ scene' = "None"
          /\ ~running => last'.op \in {"close", "close_raises"} /\ ~QuitCalled
          /\ last'.op \in {"close", "close_raises"} => ~running /\ ~running']_vars
    /\ ~running ~> QuitCalled

\* the loop ended by Exit on the main menu and Leaderboard.quit() has returned
C37_Witness ==
    /\ ~running /\ scene = "None" /\ last.op = "close" /\ ~changed


\* the largest displacement of one tick of a ball of this speed
MaxStep(speed) == Step(Scale, speed)

\* C38: in every state of a Level a launched ball is at most one tick's
\* displacement beyond the left wall, the right wall (its left edge at
\* screen width - BALL_WIDTH) and the top wall.
C38_InsidePlayfield ==
    (scene = "Level" /\ ball.launched)
        => /\ ball.pos[1] >= -MaxStep(ball.speed)
           /\ ball.pos[1] <= (ScreenW - BALL_WIDTH) * Scale + MaxStep(ball.speed)
           /\ ball.pos[2] >= -MaxStep(ball.speed)

\* a launched ball past the left wall and still moving left: the next update
\* reflects it before it advances
C38_Witness ==
    /\ scene = "Level" /\ ball.launched /\ ball.alive /\ last.op = "update"
    /\ ball.pos[1] < 0 /\ ball.vel[1] < 0


\* C39: after Level(difficulty, score) no two brick rectangles overlap, every
\* brick lies between the left and the right edge of the screen, every brick's
\* bottom edge is at or above the top edge of the paddle and of the ball at
\* their starting positions, and the ball at its starting position overlaps
\* no brick.
C39_BrickFieldWellPlaced ==
    Constructed
        => /\ \A k, n \in 1..Len(bricks) :
                  k # n => ~CollideRect(BrickRect(bricks[k]), BrickRect(bricks[n]))
           /\ \A k \in 1..Len(bricks) :
                  /\ BrickRect(bricks[k]).x >= 0
                  /\ BrickRect(bricks[k]).x + BRICK_WIDTH <= ScreenW
                  /\ bricks[k].pos[2] + BRICK_HEIGHT * Scale <= StartPaddle[2]
                  /\ bricks[k].pos[2] + BRICK_HEIGHT * Scale <= StartBall[2]
                  /\ ~CollideRect(BrickRect(bricks[k]),
                                  RectOf(StartBall, BALL_WIDTH, BALL_HEIGHT))

=============================================================================
